---- MODULE Spec2Model ----
(***************************************************************************)
(* Graph schema deduction (graph_schema.py) and instance-to-graph          *)
(* extraction (graph_core.py) of the EKG demo, as a state machine.         *)
(*                                                                         *)
(* Dotted field paths are sequences of field names: "" is <<>>,            *)
(* "site.contact" is <<"site", "contact">>.  Field names hold no dot, so   *)
(* the two forms correspond one to one and the string tests of the source  *)
(* (startswith(p + "."), split("."), "." in p) become tests on segments.   *)
(***************************************************************************)
EXTENDS Integers, Sequences, FiniteSets, TLC

VARIABLES
    root_model_class,   \* GraphSchema.root_model_class
    nodes,              \* GraphSchema.nodes: the GraphNodeConfig objects, in order
    relations,          \* GraphSchema.relations: the GraphRelationConfig objects, in order
    model_field_map,    \* GraphSchema._model_field_map, in insertion order
    warnings,           \* GraphSchema._warnings
    model,              \* the root instance handed to create_graph
    pc,                 \* position in the pipeline
    nodes_dict,         \* extract_graph_data: node type -> list of rows
    relationships,      \* extract_graph_data: list of edge tuples
    id_registry,        \* extract_graph_data: node type -> (dedup string -> id)
    node_registry,      \* extract_graph_data: node type -> set of dedup strings
    raised,             \* the exception that ended the pipeline, or NoError
    backend,            \* the kuzu connection: its tables, and the statements of this run
    next_uuid,          \* number of uuid4() values drawn so far
    clock,              \* the reading of datetime.utcnow()
    runs,               \* results returned by the completed create_graph calls
    reordered,          \* nodes of a schema built from the same declarations in another order
    neo4j,              \* a Neo4jBackend: its driver, and the outcomes of the calls made on it
    thread_mw,          \* a StreamlitThreadDataMiddleware and the directory tree under its base_dir
    trace_mw,           \* a TraceMiddleware and the tool calls in progress on it
    kuzu                \* a KuzuBackend: its connection, the tables of its database, the last outcome

vars == <<root_model_class, nodes, relations, model_field_map, warnings, model, pc,
          nodes_dict, relationships, id_registry, node_registry, raised,
          next_uuid, clock, runs, reordered, backend, neo4j, thread_mw, trace_mw,
          kuzu>>

\* the variables of create_graph and of the loader, and those of the components
pipeline_vars == <<root_model_class, nodes, relations, model_field_map, warnings, model,
                   nodes_dict, relationships, id_registry, node_registry, raised,
                   next_uuid, clock, runs, reordered, backend>>

component_vars == <<neo4j, thread_mw, trace_mw, kuzu>>

(***************************************************************************)
(* Bounds of the exploration.                                              *)
(***************************************************************************)
MaxDecls == 3
MaxRels == 2
MaxItems == 2
MaxRuns == 2
MaxCalls == 3
MaxWrites == 2

(***************************************************************************)
(* Generic helpers on sequences.                                           *)
(***************************************************************************)
Range(s) == {s[i] : i \in DOMAIN s}

InjectiveSeqs(S, n) ==
    UNION {{s \in [1..k -> S] : \A i, j \in 1..k : i # j => s[i] # s[j]} : k \in 0..n}

SeqsUpTo(S, n) == UNION {[1..k -> S] : k \in 0..n}

(***************************************************************************)
(* Python values.  None, str, a pydantic object, a dict (model_dump of an  *)
(* object), a list, a uuid4 string and a timestamp string.                 *)
(***************************************************************************)
None == [k |-> "none"]
Str(s) == [k |-> "str", s |-> s]
Obj(t, f) == [k |-> "obj", t |-> t, f |-> f]
Dict(f) == [k |-> "dict", f |-> f]
List(items) == [k |-> "list", items |-> items]
Uuid(n) == [k |-> "uuid", n |-> n]
Timestamp(n) == [k |-> "time", n |-> n]

\* bool(v): None, "", {} and [] are falsy
Truthy(v) ==
    CASE v.k = "none" -> FALSE
      [] v.k = "str" -> v.s # ""
      [] v.k = "dict" -> DOMAIN v.f # {}
      [] v.k = "list" -> Len(v.items) > 0
      [] OTHER -> TRUE

\* str(v): a string is itself; any other value has its own textual form
PyStr(v) ==
    IF v.k \in {"str", "uuid", "time"} THEN v ELSE [k |-> "repr", of |-> v]

\* item.model_dump(): objects become dicts, recursively
RECURSIVE model_dump(_)
model_dump(v) ==
    CASE v.k = "obj" -> Dict([a \in DOMAIN v.f |-> model_dump(v.f[a])])
      [] v.k = "list" -> List([i \in DOMAIN v.items |-> model_dump(v.items[i])])
      [] OTHER -> v

(***************************************************************************)
(* The data model classes: each is its model_fields, in declaration        *)
(* order.  ann is the shape of the annotation, type the class it names.    *)
(***************************************************************************)
Field(n, ann, t) == [name |-> n, ann |-> ann, type |-> t]

ModelClasses == {"Review", "Opportunity", "Person", "Org", "Member", "Site", "Team", "Desk"}

model_fields(cls) ==
    CASE cls = "Review" ->
           << Field("date", "prim", "str"),
              Field("opportunity", "model", "Opportunity"),
              Field("people", "list_model", "Person") >>
      [] cls = "Opportunity" -> << Field("name", "prim", "str") >>
      [] cls = "Person" -> << Field("name", "prim", "str") >>
      [] cls = "Org" ->
           << Field("name", "prim", "str"),
              Field("parent", "optional_model", "Org"),
              Field("lead", "optional_model", "Member"),
              Field("members", "list_model", "Member"),
              Field("site", "optional_model", "Site") >>
      [] cls = "Member" ->
           << Field("name", "prim", "str"),
              Field("email", "prim", "str") >>
      [] cls = "Site" ->
           << Field("name", "prim", "str"),
              Field("contact", "optional_model", "Member") >>
      [] cls = "Team" ->
           << Field("name", "prim", "str"),
              Field("main", "optional_model", "Desk"),
              Field("backup", "optional_model", "Desk"),
              Field("desks", "list_model", "Desk") >>
      [] cls = "Desk" ->
           << Field("name", "prim", "str"),
              Field("owner", "optional_model", "Member"),
              Field("team", "optional_model", "Team") >>

(***************************************************************************)
(* Type introspection: GraphSchema._build_model_field_map.                 *)
(* The field map is a dict in insertion order: a sequence of               *)
(* [cls, fields], fields a sequence of [name, path, type, is_list].        *)
(***************************************************************************)
\* the branch of explore_model a field's annotation takes
annotation_is_list(fld) == fld.ann \in {"list_model", "list_prim", "optional_list_model"}

annotation_is_explored(fld) ==
    fld.ann \in {"model", "optional_model", "list_model", "optional_list_model"}

field_info(fld, field_path) ==
    [name |-> fld.name, path |-> field_path, type |-> fld.type,
     is_list |-> annotation_is_list(fld)]

\* self._model_field_map[model_class][field_name] = {...}
set_field_entry(map, cls, info) ==
    [i \in DOMAIN map |->
        IF map[i].cls = cls
        THEN [map[i] EXCEPT !.fields =
                 IF \E j \in DOMAIN @ : @[j].name = info.name
                 THEN [j \in DOMAIN @ |-> IF @[j].name = info.name THEN info ELSE @[j]]
                 ELSE Append(@, info)]
        ELSE map[i]]

\* a visited test that remembers only the classes with a structured field
in_visited_structured(cls, visited) ==
    /\ cls \in visited
    /\ \E j \in DOMAIN model_fields(cls) : annotation_is_explored(model_fields(cls)[j])

\* `if model_class in visited`
in_visited(cls, visited) == cls \in visited

RECURSIVE explore_model(_, _, _)
RECURSIVE explore_fields(_, _, _, _)
explore_model(cls, path, acc) ==
    IF in_visited(cls, acc.visited) THEN acc
    ELSE explore_fields(cls, path, 1,
             [visited |-> acc.visited \cup {cls},
              map |-> Append(acc.map, [cls |-> cls, fields |-> <<>>])])

explore_fields(cls, path, i, acc) ==
    IF i > Len(model_fields(cls)) THEN acc
    ELSE LET fld == model_fields(cls)[i]
             field_path == Append(path, fld.name)
             recorded == [acc EXCEPT !.map = set_field_entry(@, cls, field_info(fld, field_path))]
             after == IF annotation_is_explored(fld)
                      THEN explore_model(fld.type, field_path, recorded)
                      ELSE recorded
         IN explore_fields(cls, path, i + 1, after)

build_model_field_map(root) == explore_model(root, <<>>, [visited |-> {}, map |-> <<>>]).map

(***************************************************************************)
(* Declarations: GraphNodeConfig and GraphRelationConfig.                  *)
(***************************************************************************)
NoClass == "NoneType"
NoPath == <<"<None>">>      \* the value None where a path string is expected

\* cls.__name__.lower()
LowerName(cls) ==
    CASE cls = "Review" -> "review"
      [] cls = "Opportunity" -> "opportunity"
      [] cls = "Person" -> "person"
      [] cls = "Org" -> "org"
      [] cls = "Member" -> "member"
      [] cls = "Site" -> "site"
      [] cls = "Team" -> "team"
      [] cls = "Desk" -> "desk"
      [] OTHER -> "nonetype"

\* name_from: a field name, or a callable (data, node_type) -> value
NameField(f) == [kind |-> "field", field |-> f]
NameCallable(f) == [kind |-> "callable", field |-> f]

GraphNodeConfig(cls, name_from, dedup_key, embedded, embed_in_parent) ==
    [baml_class |-> cls,
     name_from |-> name_from,
     deduplication_key |-> dedup_key,
     embedded |-> embedded,
     embed_in_parent |-> embed_in_parent,
     embed_prefix |-> IF embed_in_parent THEN LowerName(cls) \o "_" ELSE "",   \* model_post_init
     parent_node_class |-> NoClass,
     field_paths |-> <<>>,
     is_list_at_paths |-> <<>>,
     excluded_fields |-> {},
     field_path_ |-> NoPath,
     is_list_ |-> FALSE]

GraphRelationConfig(from_node, to_node, name) ==
    [from_node |-> from_node,
     to_node |-> to_node,
     name |-> name,
     field_paths |-> <<>>,
     from_field_path_ |-> NoPath,
     to_field_path_ |-> NoPath]

(***************************************************************************)
(* GraphSchema._deduce_node_field_paths                                    *)
(***************************************************************************)
RECURSIVE paths_in_fields(_, _, _)
paths_in_fields(fields, cls, j) ==
    IF j > Len(fields) THEN <<>>
    ELSE (IF fields[j].type = cls THEN <<fields[j]>> ELSE <<>>)
         \o paths_in_fields(fields, cls, j + 1)

\* every field of the map whose type is cls, in the map's order
RECURSIVE paths_in_map(_, _, _)
paths_in_map(map, cls, i) ==
    IF i > Len(map) THEN <<>>
    ELSE paths_in_fields(map[i].fields, cls, 1) \o paths_in_map(map, cls, i + 1)

\* the dict built by is_list_at_paths[path] = is_list over the found fields
is_list_dict(found) ==
    [p \in {found[i].path : i \in DOMAIN found} |->
        LET last == CHOOSE i \in DOMAIN found :
                        /\ found[i].path = p
                        /\ \A j \in DOMAIN found : found[j].path = p => j <= i
        IN found[last].is_list]

\* a deduction without the special case of the root model
is_root_declaration_never(node_config, root) == FALSE

is_root_declaration(node_config, root) == node_config.baml_class = root

deduce_one_node(node_config, root, map) ==
    IF is_root_declaration(node_config, root)
    THEN [node_config EXCEPT !.field_paths = << <<>> >>,
                             !.is_list_at_paths = [p \in {<<>>} |-> FALSE]]
    ELSE LET found == paths_in_map(map, node_config.baml_class, 1)
         IN [node_config EXCEPT
                !.field_paths = [i \in DOMAIN found |-> found[i].path],
                !.is_list_at_paths = is_list_dict(found)]

deduce_node_field_paths(ns, root, map) ==
    [i \in DOMAIN ns |-> deduce_one_node(ns[i], root, map)]

(***************************************************************************)
(* GraphSchema._deduce_relation_field_paths and its helpers                *)
(***************************************************************************)
\* q.startswith(p + ".")
starts_with_dot(q, p) ==
    /\ p # <<>>
    /\ Len(q) > Len(p)
    /\ SubSeq(q, 1, Len(p)) = p

\* path.split("."): the empty string splits into one empty part
split_path(p) == IF p = <<>> THEN <<"">> ELSE p

Min(a, b) == IF a < b THEN a ELSE b

RECURSIVE common_prefix_len(_, _, _)
common_prefix_len(from_parts, to_parts, i) ==
    IF i > Min(Len(from_parts), Len(to_parts)) THEN i - 1
    ELSE IF from_parts[i] = to_parts[i]
         THEN common_prefix_len(from_parts, to_parts, i + 1)
         ELSE i - 1

\* a filter that keeps every combination
is_valid_relationship_path_any(from_path, to_path) == TRUE

is_valid_relationship_path(from_path, to_path) ==
    IF from_path = <<>> THEN TRUE
    ELSE IF starts_with_dot(to_path, from_path) \/ starts_with_dot(from_path, to_path)
         THEN TRUE
         ELSE common_prefix_len(split_path(from_path), split_path(to_path), 1) > 0

\* next((n for n in self.nodes if n.baml_class == node_class), None).field_paths
get_node_paths(ns, cls) ==
    IF \E i \in DOMAIN ns : ns[i].baml_class = cls
    THEN ns[CHOOSE i \in DOMAIN ns :
                /\ ns[i].baml_class = cls
                /\ \A j \in DOMAIN ns : ns[j].baml_class = cls => i <= j].field_paths
    ELSE <<>>

RECURSIVE valid_pairs(_, _, _, _)
valid_pairs(from_paths, to_paths, i, j) ==
    IF i > Len(from_paths) THEN <<>>
    ELSE IF j > Len(to_paths) THEN valid_pairs(from_paths, to_paths, i + 1, 1)
    ELSE (IF is_valid_relationship_path(from_paths[i], to_paths[j])
          THEN << <<from_paths[i], to_paths[j]>> >> ELSE <<>>)
         \o valid_pairs(from_paths, to_paths, i, j + 1)

deduce_relation_field_paths(rs, ns) ==
    [i \in DOMAIN rs |->
        [rs[i] EXCEPT !.field_paths =
            valid_pairs(get_node_paths(ns, rs[i].from_node),
                        get_node_paths(ns, rs[i].to_node), 1, 1)]]

(***************************************************************************)
(* GraphSchema._compute_excluded_fields                                    *)
(***************************************************************************)
\* an exclusion that handles the pairs of the root only
excluded_by_pair_root_only(from_path, to_path) ==
    IF from_path = <<>> /\ to_path # <<>> THEN {to_path[1]} ELSE {}

\* the field one (from_path, to_path) pair of a relation excludes
excluded_by_pair(from_path, to_path) ==
    IF Len(to_path) >= 2
    THEN IF from_path = <<>> THEN {to_path[1]}
         ELSE IF starts_with_dot(to_path, from_path)
              THEN {to_path[Len(from_path) + 1]}
              ELSE {}
    ELSE IF Len(to_path) = 1 /\ from_path = <<>> THEN {to_path[1]}
         ELSE {}

\* a scan that stops at the first relation of the list
relations_from_first(rs, cls) == {i \in DOMAIN rs : rs[i].from_node = cls /\ i = 1}

\* the relations whose pairs are scanned for a node: those leaving its class
relations_from(rs, cls) == {i \in DOMAIN rs : rs[i].from_node = cls}

excluded_by_relations(node_config, rs) ==
    UNION {UNION {excluded_by_pair(rs[i].field_paths[j][1], rs[i].field_paths[j][2]) :
                     j \in DOMAIN rs[i].field_paths} :
              i \in relations_from(rs, node_config.baml_class)}

excluded_by_embedded(node_config) ==
    {node_config.embedded[i][1] : i \in DOMAIN node_config.embedded}

\* legacy: a node flagged embed_in_parent nested under one of our paths
excluded_by_legacy(node_config, ns) ==
    UNION {IF starts_with_dot(other_path, our_path)
              \/ (our_path = <<>> /\ Len(other_path) >= 2)
           THEN IF our_path = <<>> THEN {other_path[1]}
                ELSE {other_path[Len(our_path) + 1]}
           ELSE {} :
              other_path \in UNION {Range(ns[i].field_paths) :
                                 i \in {i \in DOMAIN ns :
                                          /\ ns[i].embed_in_parent
                                          /\ ns[i].baml_class # node_config.baml_class}},
              our_path \in Range(node_config.field_paths)}

compute_excluded_fields(ns, rs) ==
    [i \in DOMAIN ns |->
        [ns[i] EXCEPT !.excluded_fields =
            excluded_by_relations(ns[i], rs)
            \cup excluded_by_embedded(ns[i])
            \cup excluded_by_legacy(ns[i], ns)]]

(***************************************************************************)
(* GraphSchema._validate_coherence: the warnings, in the order they are    *)
(* appended.  Each message is the record of the values it is formatted     *)
(* from.                                                                   *)
(***************************************************************************)
referenced_classes(rs) ==
    {rs[i].from_node : i \in DOMAIN rs} \cup {rs[i].to_node : i \in DOMAIN rs}

configured_classes(ns) == {ns[i].baml_class : i \in DOMAIN ns}

missing_classes(ns, rs) == referenced_classes(rs) \ configured_classes(ns)

\* "Class X is referenced in relationships but has no GraphNodeConfig";
\* order is an iteration of the set missing_classes
missing_class_warnings(order) ==
    [i \in DOMAIN order |-> [kind |-> "missing_node_config", cls |-> order[i]]]

relation_key(r) == <<r.from_node, r.to_node>>

\* relation_pairs[key]: the names of the relations between one pair of classes
names_between(rs, key) ==
    LET idx == {i \in DOMAIN rs : relation_key(rs[i]) = key}
        RECURSIVE collect(_)
        collect(i) ==
            IF i > Len(rs) THEN <<>>
            ELSE (IF i \in idx THEN <<rs[i].name>> ELSE <<>>) \o collect(i + 1)
    IN collect(1)

\* a check that never reports two relations between one pair of classes
duplicate_relation_warnings_none(rs, i) == <<>>

\* "Multiple relationships defined between A and B: n1, n2"
RECURSIVE duplicate_relation_warnings(_, _)
duplicate_relation_warnings(rs, i) ==
    IF i > Len(rs) THEN <<>>
    ELSE LET key == relation_key(rs[i])
             first == \A j \in 1..(i - 1) : relation_key(rs[j]) # key
             names == names_between(rs, key)
         IN (IF first /\ Len(names) > 1
             THEN << [kind |-> "multiple_relationships",
                      from |-> key[1], to |-> key[2], names |-> names] >>
             ELSE <<>>)
            \o duplicate_relation_warnings(rs, i + 1)

\* a check that never reports a declaration without paths
node_path_warnings_none(ns, root, i) == <<>>

\* "No field paths found for X in the model structure"
RECURSIVE node_path_warnings(_, _, _)
node_path_warnings(ns, root, i) ==
    IF i > Len(ns) THEN <<>>
    ELSE (IF ns[i].field_paths = <<>> /\ ns[i].baml_class # root
          THEN << [kind |-> "no_field_paths", cls |-> ns[i].baml_class] >>
          ELSE <<>>)
         \o node_path_warnings(ns, root, i + 1)

\* "No valid field paths found for relationship N between A and B"
RECURSIVE relation_path_warnings(_, _)
relation_path_warnings(rs, i) ==
    IF i > Len(rs) THEN <<>>
    ELSE (IF rs[i].field_paths = <<>>
          THEN << [kind |-> "no_relationship_paths", name |-> rs[i].name,
                   from |-> rs[i].from_node, to |-> rs[i].to_node] >>
          ELSE <<>>)
         \o relation_path_warnings(rs, i + 1)

validate_coherence(ns, rs, root, missing_order) ==
    missing_class_warnings(missing_order)
    \o duplicate_relation_warnings(rs, 1)
    \o node_path_warnings(ns, root, 1)
    \o relation_path_warnings(rs, 1)

\* the orders in which a set can be iterated
SetOrders(S) ==
    {s \in [1..Cardinality(S) -> S] : \A i, j \in DOMAIN s : i # j => s[i] # s[j]}

(***************************************************************************)
(* GraphSchema.validate_and_deduce_schema: the five steps, in order.       *)
(***************************************************************************)
deduced_nodes(ns, rs, root) ==
    LET map == build_model_field_map(root)
        ns1 == deduce_node_field_paths(ns, root, map)
        rs1 == deduce_relation_field_paths(rs, ns1)
    IN compute_excluded_fields(ns1, rs1)

deduced_relations(ns, rs, root) ==
    deduce_relation_field_paths(rs,
        deduce_node_field_paths(ns, root, build_model_field_map(root)))

(***************************************************************************)
(* graph_core.py: helpers of the extraction.                               *)
(***************************************************************************)
\* d.get(key)
dict_get(d, key) == IF key \in DOMAIN d THEN d[key] ELSE None

\* `if field_path`: None and "" are falsy
path_truthy(p) == p # NoPath /\ p # <<>>

\* one step of get_field_by_path: hasattr/getattr on an object, `in` on a dict
get_part(current, part) ==
    IF current.k \in {"obj", "dict"} /\ part \in DOMAIN current.f
    THEN current.f[part]
    ELSE None

\* getattr(obj, name, None)
getattr_or_none(obj, name) ==
    IF obj.k = "obj" /\ name \in DOMAIN obj.f THEN obj.f[name] ELSE None

has_part(current, part) ==
    current.k \in {"obj", "dict"} /\ part \in DOMAIN current.f

RECURSIVE walk_parts(_, _, _)
walk_parts(current, parts, i) ==
    IF i > Len(parts) THEN current
    ELSE IF has_part(current, parts[i])
         THEN walk_parts(get_part(current, parts[i]), parts, i + 1)
         ELSE None

get_field_by_path(obj, path) == walk_parts(obj, split_path(path), 1)

\* a display name that is str(value) for every value, None included
get_name_value_of_none(node_config, data, node_type) ==
    PyStr(dict_get(data, node_config.name_from.field))

\* GraphNodeConfig.get_name_value; a callable name_from reads its field of data
get_name_value(node_config, data, node_type) ==
    LET value == dict_get(data, node_config.name_from.field)
    IN IF value # None THEN PyStr(value) ELSE Str(node_type \o "_unnamed")

\* parent_data[prefix + name] = value for every entry of embedded_dict
with_prefixed(parent_data, prefix, embedded_dict) ==
    [key \in {prefix \o a : a \in DOMAIN embedded_dict} |->
        embedded_dict[CHOOSE a \in DOMAIN embedded_dict : prefix \o a = key]]
    @@ parent_data

\* _detect_parent_class
detect_parent_class(embedded_node, all_nodes) ==
    LET field_path == embedded_node.field_path_
    IN IF ~path_truthy(field_path) \/ Len(field_path) <= 1 THEN NoClass
       ELSE LET parent_path == SubSeq(field_path, 1, Len(field_path) - 1)
                hits == {i \in DOMAIN all_nodes :
                            /\ ~all_nodes[i].embed_in_parent
                            /\ all_nodes[i].field_path_ = parent_path}
            IN IF hits = {} THEN NoClass
               ELSE all_nodes[CHOOSE i \in hits : \A j \in hits : i <= j].baml_class

\* _find_embedded_data_in_model: the first field holding a target_class value
find_embedded_data_in_model(root_model, target_class) ==
    LET flds == model_fields(root_model.t)
        hits == {i \in DOMAIN flds :
                    /\ root_model.f[flds[i].name] # None
                    /\ \/ /\ root_model.f[flds[i].name].k = "obj"
                          /\ root_model.f[flds[i].name].t = target_class
                       \/ /\ flds[i].ann = "model"
                          /\ flds[i].type = target_class}
    IN IF hits = {} THEN None
       ELSE root_model.f[flds[CHOOSE i \in hits : \A j \in hits : i <= j].name]

\* _add_embedded_fields, the `embedded` list of the parent node
RECURSIVE add_embedded_new(_, _, _, _)
add_embedded_new(parent_data, parent_instance, embedded, i) ==
    IF i > Len(embedded) THEN parent_data
    ELSE LET field_name == embedded[i][1]
             embedded_data == IF Truthy(parent_instance)
                              THEN getattr_or_none(parent_instance, field_name)
                              ELSE None
             merged == IF embedded_data.k \in {"obj", "dict"}
                       THEN with_prefixed(parent_data, field_name \o "_",
                                          model_dump(embedded_data).f)
                       ELSE parent_data
         IN add_embedded_new(merged, parent_instance, embedded, i + 1)

\* _add_embedded_fields, the legacy embed_in_parent nodes
RECURSIVE add_embedded_legacy(_, _, _, _, _)
add_embedded_legacy(parent_data, root_model, all_nodes, parent_node, i) ==
    IF i > Len(all_nodes) THEN parent_data
    ELSE LET embedded_node == all_nodes[i]
             parent_class == IF embedded_node.parent_node_class # NoClass
                             THEN embedded_node.parent_node_class
                             ELSE detect_parent_class(embedded_node, all_nodes)
             by_path == IF path_truthy(embedded_node.field_path_)
                        THEN get_field_by_path(root_model, embedded_node.field_path_)
                        ELSE None
             embedded_data == IF by_path # None THEN by_path
                              ELSE find_embedded_data_in_model(root_model,
                                                               embedded_node.baml_class)
             prefix == IF embedded_node.embed_prefix # ""
                       THEN embedded_node.embed_prefix
                       ELSE LowerName(embedded_node.baml_class) \o "_"
             merged == IF /\ embedded_node.embed_in_parent
                          /\ parent_class # NoClass
                          /\ parent_class = parent_node.baml_class
                          /\ embedded_data.k \in {"obj", "dict"}
                       THEN with_prefixed(parent_data, prefix, model_dump(embedded_data).f)
                       ELSE parent_data
         IN add_embedded_legacy(merged, root_model, all_nodes, parent_node, i + 1)

add_embedded_fields(parent_data, root_model, all_nodes, parent_node) ==
    LET parent_instance == IF path_truthy(parent_node.field_path_)
                           THEN get_field_by_path(root_model, parent_node.field_path_)
                           ELSE root_model
        new == add_embedded_new(parent_data, parent_instance, parent_node.embedded, 1)
    IN add_embedded_legacy(new, root_model, all_nodes, parent_node, 1)

(***************************************************************************)
(* extract_graph_data, the node pass.                                      *)
(***************************************************************************)
\* the items found at one path of a node: `field_data is None`, the list
\* expansion, `item is None` and the model_dump/dict test
items_at_path(node_info, root_model, field_path) ==
    LET field_data == IF path_truthy(field_path)
                      THEN get_field_by_path(root_model, field_path)
                      ELSE root_model
        is_list == IF field_path \in DOMAIN node_info.is_list_at_paths
                   THEN node_info.is_list_at_paths[field_path]
                   ELSE FALSE
        items == IF field_data = None THEN <<>>
                 ELSE IF is_list
                      THEN (IF field_data.k = "list" THEN field_data.items ELSE <<>>)
                      ELSE <<field_data>>
        RECURSIVE keep(_)
        keep(i) == IF i > Len(items) THEN <<>>
                   ELSE (IF items[i].k \in {"obj", "dict"} THEN <<items[i]>> ELSE <<>>)
                        \o keep(i + 1)
    IN keep(1)

\* field_paths_to_process
field_paths_to_process(node_info) ==
    IF node_info.field_paths # <<>> THEN node_info.field_paths ELSE <<NoPath>>

RECURSIVE items_of_node(_, _, _)
items_of_node(node_info, root_model, i) ==
    LET paths == field_paths_to_process(node_info)
    IN IF i > Len(paths) THEN <<>>
       ELSE items_at_path(node_info, root_model, paths[i])
            \o items_of_node(node_info, root_model, i + 1)

\* an identity computed from nothing but a constant
uuid4_constant(drawn) == Uuid(0)

\* str(uuid.uuid4()): a value no earlier call returned
uuid4(drawn) == Uuid(drawn + 1)

\* the row built from one item, before deduplication
item_row(item, node_info, root_model, all_nodes, drawn, now) ==
    LET node_type == node_info.baml_class
        dumped == model_dump(item).f
        with_id == ("id" :> uuid4(drawn)) @@ dumped
        with_name == ("_name" :> get_name_value(node_info, with_id, node_type)) @@ with_id
        kept == [key \in DOMAIN with_name \ node_info.excluded_fields |-> with_name[key]]
        embedded == add_embedded_fields(kept, root_model, all_nodes, node_info)
    IN ("_created_at" :> Timestamp(now)) @@ ("_updated_at" :> Timestamp(now)) @@ embedded

\* the value a row is deduplicated by
dedup_value_of(node_info, item_data) ==
    IF Truthy(node_info.deduplication_key)
    THEN dict_get(item_data, node_info.deduplication_key.s)
    ELSE dict_get(item_data, "_name")

\* a node pass that takes every deduplication value for a new one
is_new_dedup_always(registry, dedup_str) == TRUE

\* `dedup_str not in node_registry[node_type]`
is_new_dedup(registry, dedup_str) == dedup_str \notin registry

\* a registry that records an id no row carries
registered_id_unassigned(item_data) == Uuid(0)

\* the id registered for a kept row with a dedup value
registered_id(item_data) == item_data["id"]

\* acc: [nodes_dict, node_registry, id_registry, drawn]
add_item(acc, item, node_info, root_model, all_nodes, now) ==
    LET node_type == node_info.baml_class
        item_data == item_row(item, node_info, root_model, all_nodes, acc.drawn, now)
        dedup_value == dedup_value_of(node_info, item_data)
        dedup_str == PyStr(dedup_value)
        drawn == acc.drawn + 1
    IN IF Truthy(dedup_value)
       THEN IF is_new_dedup(acc.node_registry[node_type], dedup_str)
            THEN [nodes_dict |-> [acc.nodes_dict EXCEPT ![node_type] = Append(@, item_data)],
                  node_registry |-> [acc.node_registry EXCEPT ![node_type] = @ \cup {dedup_str}],
                  id_registry |-> [acc.id_registry EXCEPT ![node_type] =
                                      (dedup_str :> registered_id(item_data)) @@ @],
                  drawn |-> drawn]
            ELSE [acc EXCEPT !.drawn = drawn]
       ELSE [nodes_dict |-> [acc.nodes_dict EXCEPT ![node_type] = Append(@, item_data)],
             node_registry |-> acc.node_registry,
             id_registry |-> [acc.id_registry EXCEPT ![node_type] =
                                 (item_data["id"] :> item_data["id"]) @@ @],
             drawn |-> drawn]

\* for item in items: the loop body, then the rest of the loop on the buckets
\* as the item left them
RECURSIVE add_items(_, _, _, _, _, _, _)
rest_of_items(added, items, i, node_info, root_model, all_nodes, now) ==
    CASE added.drawn \in Nat ->
        add_items(added, items, i + 1, node_info, root_model, all_nodes, now)

add_items(acc, items, i, node_info, root_model, all_nodes, now) ==
    IF i > Len(items) THEN acc
    ELSE rest_of_items(add_item(acc, items[i], node_info, root_model, all_nodes, now),
                       items, i, node_info, root_model, all_nodes, now)

\* for node_info in nodes: skip embed_in_parent, else extract the items of the
\* node, then the rest of the loop
RECURSIVE node_pass(_, _, _, _, _)
rest_of_nodes(added, all_nodes, i, root_model, now) ==
    CASE added.drawn \in Nat -> node_pass(added, all_nodes, i + 1, root_model, now)

node_pass(acc, all_nodes, i, root_model, now) ==
    IF i > Len(all_nodes) THEN acc
    ELSE IF all_nodes[i].embed_in_parent
         THEN node_pass(acc, all_nodes, i + 1, root_model, now)
         ELSE rest_of_nodes(add_items(acc, items_of_node(all_nodes[i], root_model, 1), 1,
                                      all_nodes[i], root_model, all_nodes, now),
                            all_nodes, i, root_model, now)

\* "Init buckets"
init_buckets(all_nodes, drawn) ==
    [nodes_dict |-> [t \in configured_classes(all_nodes) |-> <<>>],
     node_registry |-> [t \in configured_classes(all_nodes) |-> {}],
     id_registry |-> [t \in configured_classes(all_nodes) |-> <<>>],
     drawn |-> drawn]

(***************************************************************************)
(* extract_graph_data, the edge pass.                                      *)
(***************************************************************************)
\* next((n for n in nodes if n.baml_class.__name__ == t), None)
node_info_of(all_nodes, t) ==
    all_nodes[CHOOSE i \in DOMAIN all_nodes :
                 /\ all_nodes[i].baml_class = t
                 /\ \A j \in DOMAIN all_nodes : all_nodes[j].baml_class = t => i <= j]

\* x.model_dump() if hasattr(x, "model_dump") else x
dump_or_self(x) == IF x.k = "obj" THEN model_dump(x) ELSE x

\* whether computing the dedup value of d raises: d.get on a value with no get
dedup_lookup_raises(d) == d.k # "dict"

\* the dedup value the edge pass computes for an endpoint
edge_dedup_value(node_info, d, node_type) ==
    IF Truthy(node_info.deduplication_key)
    THEN dict_get(d.f, node_info.deduplication_key.s)
    ELSE get_name_value(node_info, d.f, node_type)

\* id_registry[t].get(str(v)) if v else None
lookup_id(registry, v) ==
    IF Truthy(v) /\ PyStr(v) \in DOMAIN registry THEN registry[PyStr(v)] ELSE None

\* the tuples one relation appends for its target items; "raise" if an item raises
RECURSIVE edges_to_items(_, _, _, _, _, _)
edges_to_items(to_items, i, relation_info, from_id, to_node_info, registry) ==
    IF i > Len(to_items) THEN [edges |-> <<>>, raised |-> FALSE]
    ELSE IF to_items[i] = None
         THEN edges_to_items(to_items, i + 1, relation_info, from_id, to_node_info, registry)
         ELSE LET to_dict == dump_or_self(to_items[i])
              IN IF dedup_lookup_raises(to_dict)
                 THEN [edges |-> <<>>, raised |-> TRUE]
                 ELSE LET to_id == lookup_id(registry[relation_info.to_node],
                                      edge_dedup_value(to_node_info, to_dict,
                                                       relation_info.to_node))
                          rest == edges_to_items(to_items, i + 1, relation_info, from_id,
                                                 to_node_info, registry)
                      IN [edges |-> (IF to_id # None
                                     THEN << <<relation_info.from_node, from_id,
                                               relation_info.to_node, to_id,
                                               relation_info.name>> >>
                                     ELSE <<>>) \o rest.edges,
                          raised |-> rest.raised]

\* the body of the loop over relations, for one relation
edges_of_relation(relation_info, all_nodes, root_model, registry) ==
    LET from_type == relation_info.from_node
        to_type == relation_info.to_node
        skip == [edges |-> <<>>, raised |-> FALSE]
    IN IF from_type \notin configured_classes(all_nodes)
          \/ to_type \notin configured_classes(all_nodes)
       THEN skip
       ELSE LET from_node_info == node_info_of(all_nodes, from_type)
                to_node_info == node_info_of(all_nodes, to_type)
                from_data == IF path_truthy(relation_info.from_field_path_)
                             THEN get_field_by_path(root_model, relation_info.from_field_path_)
                             ELSE root_model
                to_data == IF path_truthy(relation_info.to_field_path_)
                           THEN get_field_by_path(root_model, relation_info.to_field_path_)
                           ELSE None
                from_dict == dump_or_self(from_data)
            IN IF from_node_info.embed_in_parent \/ to_node_info.embed_in_parent
               THEN skip
               ELSE IF from_data = None \/ to_data = None
               THEN skip
               ELSE IF dedup_lookup_raises(from_dict)
               THEN [edges |-> <<>>, raised |-> TRUE]
               ELSE LET from_id == lookup_id(registry[from_type],
                                       edge_dedup_value(from_node_info, from_dict, from_type))
                        to_items == IF to_data.k = "list" THEN to_data.items ELSE <<to_data>>
                    IN IF from_id = None THEN skip
                       ELSE edges_to_items(to_items, 1, relation_info, from_id,
                                           to_node_info, registry)

\* the loop over relations: the tuples appended, and whether it raised
RECURSIVE edge_pass(_, _, _, _, _)
edge_pass(rs, i, all_nodes, root_model, registry) ==
    IF i > Len(rs) THEN [edges |-> <<>>, raised |-> FALSE]
    ELSE LET one == edges_of_relation(rs[i], all_nodes, root_model, registry)
         IN IF one.raised THEN [edges |-> one.edges, raised |-> TRUE]
            ELSE LET rest == edge_pass(rs, i + 1, all_nodes, root_model, registry)
                 IN [edges |-> one.edges \o rest.edges, raised |-> rest.raised]

(***************************************************************************)
(* The graph store behind kuzu.Connection.execute: the tables of one       *)
(* database, by name.  A statement either changes the tables or is         *)
(* rejected (an exception at the call site), which leaves them unchanged.   *)
(***************************************************************************)
DropTable(table_name) == [op |-> "DROP TABLE", table |-> table_name]

CreateNodeTable(table_name, fields, key_field) ==
    [op |-> "CREATE NODE TABLE", table |-> table_name, fields |-> fields,
     primary_key |-> key_field]

CreateRelTable(rel_name, from_table, to_table) ==
    [op |-> "CREATE REL TABLE", table |-> rel_name, from |-> from_table, to |-> to_table]

CreateNode(node_type, cleaned_data) ==
    [op |-> "CREATE", table |-> node_type, data |-> cleaned_data]

\* MATCH (from:F), (to:T) WHERE from.f = .. AND to.f = .. CREATE (from)-[:R]->(to)
MatchCreateWhere(from_type, from_field, from_id, to_type, to_field, to_id, rel_name) ==
    [op |-> "MATCH CREATE", table |-> rel_name,
     from |-> from_type, from_field |-> from_field, from_id |-> from_id,
     to |-> to_type, to_field |-> to_field, to_id |-> to_id]

\* the statement of load_graph_data: WHERE from.id = .. AND to.id = ..
MatchCreate(from_type, from_id, to_type, to_id, rel_name) ==
    MatchCreateWhere(from_type, "id", from_id, to_type, "id", to_id, rel_name)

\* the literals of a statement
NullLiteral == [lit |-> "NULL"]
Quoted(text) == [lit |-> "quoted", text |-> text]
ListLiteral(elements) == [lit |-> "list", elements |-> elements]
Bare(text) == [lit |-> "bare", text |-> text]

is_node_table(db, t) == t \in DOMAIN db /\ db[t].kind = "node"

is_rel_table(db, t) == t \in DOMAIN db /\ db[t].kind = "rel"

column_names(db, t) == {db[t].fields[i][1] : i \in DOMAIN db[t].fields}

\* the rows of node table t whose primary key is the literal id
rows_with_key(db, t, id) ==
    {a \in DOMAIN db[t].rows :
        /\ db[t].primary_key \in DOMAIN db[t].rows[a]
        /\ db[t].rows[a][db[t].primary_key] = id}

\* the rows of node table t whose property field is the literal value
rows_where(db, t, field, value) ==
    {a \in DOMAIN db[t].rows :
        field \in DOMAIN db[t].rows[a] /\ db[t].rows[a][field] = value}

\* whether the store rejects a statement
rejects(db, stmt) ==
    CASE stmt.op = "DROP TABLE" ->
            \/ stmt.table \notin DOMAIN db
            \/ /\ db[stmt.table].kind = "node"
               /\ \E r \in DOMAIN db :
                     db[r].kind = "rel" /\ stmt.table \in {db[r].from, db[r].to}
      [] stmt.op = "CREATE NODE TABLE" ->
            \/ stmt.table \in DOMAIN db
            \/ \A i \in DOMAIN stmt.fields : stmt.fields[i][1] # stmt.primary_key
      [] stmt.op = "CREATE REL TABLE" ->
            \/ stmt.table \in DOMAIN db
            \/ ~is_node_table(db, stmt.from)
            \/ ~is_node_table(db, stmt.to)
      [] stmt.op = "CREATE" ->
            \/ ~is_node_table(db, stmt.table)
            \/ /\ is_node_table(db, stmt.table)
               /\ \/ ~(DOMAIN stmt.data \subseteq column_names(db, stmt.table))
                  \/ db[stmt.table].primary_key \notin DOMAIN stmt.data
                  \/ /\ db[stmt.table].primary_key \in DOMAIN stmt.data
                     /\ \/ stmt.data[db[stmt.table].primary_key] = NullLiteral
                        \/ rows_with_key(db, stmt.table,
                                         stmt.data[db[stmt.table].primary_key]) # {}
      [] stmt.op = "MATCH CREATE" ->
            \/ ~is_node_table(db, stmt.from)
            \/ ~is_node_table(db, stmt.to)
            \/ ~is_rel_table(db, stmt.table)
            \/ /\ is_rel_table(db, stmt.table)
               /\ (db[stmt.table].from # stmt.from \/ db[stmt.table].to # stmt.to)
            \/ /\ is_node_table(db, stmt.from)
               /\ stmt.from_field \notin column_names(db, stmt.from)
            \/ /\ is_node_table(db, stmt.to)
               /\ stmt.to_field \notin column_names(db, stmt.to)

\* the tables after a statement the store accepts
applied(db, stmt) ==
    CASE stmt.op = "DROP TABLE" ->
            [t \in DOMAIN db \ {stmt.table} |-> db[t]]
      [] stmt.op = "CREATE NODE TABLE" ->
            (stmt.table :> [kind |-> "node", fields |-> stmt.fields,
                            primary_key |-> stmt.primary_key, rows |-> <<>>]) @@ db
      [] stmt.op = "CREATE REL TABLE" ->
            (stmt.table :> [kind |-> "rel", from |-> stmt.from, to |-> stmt.to,
                            rows |-> <<>>]) @@ db
      [] stmt.op = "CREATE" ->
            [db EXCEPT ![stmt.table].rows = Append(@, stmt.data)]
      [] stmt.op = "MATCH CREATE" ->
            LET matched ==
                    Cardinality(rows_where(db, stmt.from, stmt.from_field, stmt.from_id))
                       * Cardinality(rows_where(db, stmt.to, stmt.to_field, stmt.to_id))
            IN [db EXCEPT ![stmt.table].rows =
                   @ \o [k \in 1..matched |-> <<stmt.from_id, stmt.to_id>>]]

\* conn.execute(statement) on connection state conn = [db, log]: the statement
\* is logged with its outcome
execute(conn, stmt) ==
    IF rejects(conn.db, stmt)
    THEN [db |-> conn.db, log |-> Append(conn.log, [stmt |-> stmt, ok |-> FALSE])]
    ELSE [db |-> applied(conn.db, stmt),
          log |-> Append(conn.log, [stmt |-> stmt, ok |-> TRUE])]

last_rejected(conn) == conn.log # <<>> /\ ~conn.log[Len(conn.log)].ok

(***************************************************************************)
(* graph_core.py: create_schema.  A connection state is [db, log]; the     *)
(* result is that state and whether an exception left the function.        *)
(***************************************************************************)
\* "Drop existing rel tables first": try: execute(DROP) except: pass
RECURSIVE drop_rel_tables(_, _, _)
drop_rel_tables(conn, rs, i) ==
    IF i > Len(rs) THEN conn
    ELSE drop_rel_tables(execute(conn, DropTable(rs[i].name)), rs, i + 1)

\* "Drop node tables": a name joins dropped_tables when its drop succeeded
RECURSIVE drop_node_tables(_, _, _, _)
after_node_drop(conn, ns, i, dropped_tables) ==
    drop_node_tables(conn, ns, i + 1,
                     IF last_rejected(conn) THEN dropped_tables
                     ELSE dropped_tables \cup {ns[i].baml_class})

drop_node_tables_skipped(conn, ns, i, dropped_tables) == conn

drop_node_tables(conn, ns, i, dropped_tables) ==
    IF i > Len(ns) THEN conn
    ELSE IF ns[i].baml_class \in dropped_tables
         THEN drop_node_tables(conn, ns, i + 1, dropped_tables)
         ELSE after_node_drop(execute(conn, DropTable(ns[i].baml_class)), ns, i,
                              dropped_tables)

\* _get_kuzu_type
get_kuzu_type(fld) == IF fld.ann \in {"list_model", "list_prim"} THEN "STRING[]" ELSE "STRING"

\* (prefix + name, kuzu type) for every field of class cls
prefixed_fields(prefix, cls) ==
    [j \in DOMAIN model_fields(cls) |->
        <<prefix \o model_fields(cls)[j].name, get_kuzu_type(model_fields(cls)[j])>>]

\* the concatenation of the sequences of a sequence
RECURSIVE flatten(_, _)
flatten(seqs, i) == IF i > Len(seqs) THEN <<>> ELSE seqs[i] \o flatten(seqs, i + 1)

\* embedded_fields_by_parent[parent_name], empty if the key is absent: the
\* entries of the `embedded` lists first, those of embed_in_parent nodes after
embedded_fields_by_parent(ns, parent_name) ==
    flatten([i \in DOMAIN ns |->
                IF ns[i].baml_class = parent_name
                THEN flatten([k \in DOMAIN ns[i].embedded |->
                                 prefixed_fields(ns[i].embedded[k][1] \o "_",
                                                 ns[i].embedded[k][2])], 1)
                ELSE <<>>], 1)
    \o
    flatten([i \in DOMAIN ns |->
                IF ns[i].embed_in_parent
                   /\ (IF ns[i].parent_node_class # NoClass
                       THEN ns[i].parent_node_class
                       ELSE detect_parent_class(ns[i], ns)) = parent_name
                THEN prefixed_fields(IF ns[i].embed_prefix # "" THEN ns[i].embed_prefix
                                     ELSE LowerName(ns[i].baml_class) \o "_",
                                     ns[i].baml_class)
                ELSE <<>>], 1)

\* GraphNodeConfig.key: the primary key field of every node table
primary_key_field(node) == "id"

\* the column list of the table of one node declaration
node_table_fields(node, ns) ==
    LET flds == model_fields(node.baml_class)
        RECURSIVE regular(_)
        regular(j) ==
            IF j > Len(flds) THEN <<>>
            ELSE (IF flds[j].name \notin node.excluded_fields
                  THEN << <<flds[j].name, get_kuzu_type(flds[j])>> >> ELSE <<>>)
                 \o regular(j + 1)
    IN << <<"id", "STRING">>, <<"_name", "STRING">>, <<"_created_at", "STRING">>,
          <<"_updated_at", "STRING">> >>
       \o regular(1)
       \o embedded_fields_by_parent(ns, node.baml_class)

\* "Create node tables (skip embedded ones)": execute is not guarded here
RECURSIVE create_node_tables(_, _, _, _)
after_node_create(conn, ns, i, created_tables) ==
    IF last_rejected(conn) THEN [conn |-> conn, raised |-> TRUE]
    ELSE create_node_tables(conn, ns, i + 1, created_tables \cup {ns[i].baml_class})

create_node_tables(conn, ns, i, created_tables) ==
    IF i > Len(ns) THEN [conn |-> conn, raised |-> FALSE]
    ELSE IF ns[i].embed_in_parent \/ ns[i].baml_class \in created_tables
         THEN create_node_tables(conn, ns, i + 1, created_tables)
         ELSE after_node_create(
                 execute(conn, CreateNodeTable(ns[i].baml_class,
                                               node_table_fields(ns[i], ns),
                                               primary_key_field(ns[i]))),
                 ns, i, created_tables)

\* "Create relationship tables": execute is not guarded here
RECURSIVE create_rel_tables(_, _, _)
after_rel_create(conn, rs, i) ==
    IF last_rejected(conn) THEN [conn |-> conn, raised |-> TRUE]
    ELSE create_rel_tables(conn, rs, i + 1)

create_rel_tables(conn, rs, i) ==
    IF i > Len(rs) THEN [conn |-> conn, raised |-> FALSE]
    ELSE after_rel_create(
            execute(conn, CreateRelTable(rs[i].name, rs[i].from_node, rs[i].to_node)),
            rs, i)

then_rel_tables(out, rs) ==
    IF out.raised THEN out ELSE create_rel_tables(out.conn, rs, 1)

create_schema(conn, ns, rs) ==
    then_rel_tables(
        create_node_tables(drop_node_tables(drop_rel_tables(conn, rs, 1), ns, 1, {}),
                           ns, 1, {}),
        rs)

(***************************************************************************)
(* graph_core.py: load_graph_data.                                         *)
(***************************************************************************)
\* cleaned_data[key] for one value of a row
cleaned_value(value) ==
    CASE value.k = "none" -> NullLiteral
      [] value.k \in {"str", "uuid", "time"} -> Quoted(value)
      [] value.k = "list" ->
            ListLiteral([j \in DOMAIN value.items |-> Quoted(PyStr(value.items[j]))])
      [] value.k \in {"dict", "obj"} -> Quoted(PyStr(value))
      [] OTHER -> Bare(PyStr(value))

\* the loop over the items of a row ends in `break`: the row is skipped
skips_row_never(node_data, key_field) == FALSE

skips_row(node_data, key_field) ==
    key_field \in DOMAIN node_data /\ node_data[key_field] = None

cleaned_row(node_data) == [name \in DOMAIN node_data |-> cleaned_value(node_data[name])]

\* the value None where the name of a key field is expected: no key of a row
NoKey == "<None>"

\* node_info.key if node_info else None
key_field_of(ns, node_type) ==
    IF node_type \in configured_classes(ns)
    THEN primary_key_field(node_info_of(ns, node_type)) ELSE NoKey

\* for node_data in node_list: build the statement unless skipped, execute it,
\* catch what it raises
RECURSIVE load_rows(_, _, _, _, _)
load_rows(conn, node_type, node_list, a, ns) ==
    IF a > Len(node_list) THEN conn
    ELSE IF skips_row(node_list[a], key_field_of(ns, node_type))
         THEN load_rows(conn, node_type, node_list, a + 1, ns)
         ELSE load_rows(execute(conn, CreateNode(node_type, cleaned_row(node_list[a]))),
                        node_type, node_list, a + 1, ns)

\* the keys of nodes_dict in insertion order: the classes in declaration order
RECURSIVE bucket_order(_, _)
bucket_order(ns, i) ==
    IF i > Len(ns) THEN <<>>
    ELSE (IF \E j \in 1..(i - 1) : ns[j].baml_class = ns[i].baml_class
          THEN <<>> ELSE <<ns[i].baml_class>>)
         \o bucket_order(ns, i + 1)

\* for node_type, node_list in nodes_dict.items()
RECURSIVE load_nodes(_, _, _, _, _)
load_nodes(conn, table, types, t, ns) ==
    IF t > Len(types) THEN conn
    ELSE load_nodes(load_rows(conn, types[t], table[types[t]], 1, ns),
                    table, types, t + 1, ns)

\* for ... in relationships: try: execute(MATCH ... CREATE) except: log
RECURSIVE load_relationships(_, _, _)
load_relationships(conn, edges, e) ==
    IF e > Len(edges) THEN conn
    ELSE load_relationships(
            execute(conn, MatchCreate(edges[e][1], Quoted(edges[e][2]),
                                      edges[e][3], Quoted(edges[e][4]), edges[e][5])),
            edges, e + 1)

\* a load that issues the edge statements before the node statements
load_graph_data_edges_first(conn, table, edges, ns) ==
    load_nodes(load_relationships(conn, edges, 1), table, bucket_order(ns, 1), 1, ns)

load_graph_data(conn, table, edges, ns) ==
    load_relationships(load_nodes(conn, table, bucket_order(ns, 1), 1, ns), edges, 1)

(***************************************************************************)
(* graph_backend.py: Neo4jBackend.  The outcome of a call is the exception  *)
(* it raised, or the value it returned.                                    *)
(***************************************************************************)
\* no exception
NoError == "none"

NoValue == [k |-> "nothing"]

\* raise NotImplementedError("Neo4j backend not yet implemented"), silently
not_implemented_silent == [raised |-> NoError, returned |-> None]

\* raise NotImplementedError("Neo4j backend not yet implemented")
not_implemented == [raised |-> "NotImplementedError", returned |-> NoValue]

Neo4jMethods ==
    {"connect", "execute", "create_node_table", "create_relationship_table",
     "drop_table", "insert_node", "insert_relationship", "close", "get_query_language"}

\* the body of each method of Neo4jBackend
neo4j_method(method) ==
    IF method = "get_query_language"
    THEN [raised |-> NoError, returned |-> Str("Cypher")]
    ELSE not_implemented

\* Neo4jBackend.__init__
Neo4jBackend == [driver |-> None, calls |-> <<>>]

(***************************************************************************)
(* streamlit_thread_data.py: StreamlitThreadDataMiddleware.  A Path is the *)
(* sequence of its parts; str(path) joins them with "/".  The directory    *)
(* tree is the set of directories and the files with their stat.           *)
(***************************************************************************)
\* str(path)
RECURSIVE str_path(_)
str_path(parts) ==
    IF parts = <<>> THEN ""
    ELSE IF Len(parts) = 1 THEN parts[1]
    ELSE parts[1] \o "/" \o str_path(Tail(parts))

\* a middleware whose paths do not depend on the thread
get_thread_paths_shared(mw, thread_id) ==
    [workspace_path |-> str_path(mw.base_dir \o <<"threads", "user-data", "workspace">>),
     uploads_path |-> str_path(mw.base_dir \o <<"threads", "user-data", "uploads">>),
     outputs_path |-> str_path(mw.base_dir \o <<"threads", "user-data", "outputs">>)]

\* _get_thread_paths
get_thread_paths(mw, thread_id) ==
    [workspace_path |->
         str_path(mw.base_dir \o <<"threads", thread_id, "user-data", "workspace">>),
     uploads_path |->
         str_path(mw.base_dir \o <<"threads", thread_id, "user-data", "uploads">>),
     outputs_path |->
         str_path(mw.base_dir \o <<"threads", thread_id, "user-data", "outputs">>)]

\* the thread ids of the sessions: one generated per session, and the default
ThreadIds == {"thread-1", "thread-2", "streamlit-default"}

\* the file names a skill writes, relative to its workspace
FileNames == {<<"chart.png">>, <<"data.csv">>, <<"slides", "chart.png">>}

\* the leading parts of a path, the path included
ancestors(parts) == {SubSeq(parts, 1, n) : n \in 1..Len(parts)}

\* Path(text), for the text of a path below base_dir
path_of(mw, text) ==
    CHOOSE parts \in
        UNION {ancestors(mw.base_dir \o <<"threads", t, "user-data", leaf>>) :
                  t \in ThreadIds, leaf \in {"workspace", "uploads", "outputs"}}
           \cup {mw.base_dir \o <<"threads", "user-data", leaf>> :
                    leaf \in {"workspace", "uploads", "outputs"}} :
        str_path(parts) = text

\* os.makedirs(path, exist_ok=True)
makedirs(dirs, parts) == dirs \cup ancestors(parts)

\* _create_thread_directories: the directory tree after it
create_thread_directories(mw, thread_id) ==
    makedirs(makedirs(makedirs(mw.dirs,
        path_of(mw, get_thread_paths(mw, thread_id).workspace_path)),
        path_of(mw, get_thread_paths(mw, thread_id).uploads_path)),
        path_of(mw, get_thread_paths(mw, thread_id).outputs_path))

\* the thread id before_agent settles on for a runtime
\* (the thread id of config["configurable"] and that of context; "" where
\* there is none)
runtime_thread_id(runtime) ==
    IF runtime.config # "" THEN runtime.config
    ELSE IF runtime.context # "" THEN runtime.context
    ELSE "streamlit-default"

\* get_workspace_dir
get_workspace_dir(mw, thread_id) ==
    path_of(mw, get_thread_paths(mw, thread_id).workspace_path)

is_below(parts, dir) ==
    Len(parts) > Len(dir) /\ SubSeq(parts, 1, Len(dir)) = dir

\* sorted(files, key=modified, reverse=True)
RECURSIVE sorted_by_modified(_)
sorted_by_modified(files) ==
    IF files = {} THEN <<>>
    ELSE LET latest == CHOOSE f \in files : \A g \in files : g.modified <= f.modified
         IN <<latest>> \o sorted_by_modified(files \ {latest})

\* list_workspace_files
list_workspace_files(mw, thread_id) ==
    LET workspace == get_workspace_dir(mw, thread_id)
    IN IF workspace \notin mw.dirs THEN <<>>
       ELSE sorted_by_modified(
               {[name |-> file_path[Len(file_path)],
                 path |-> str_path(file_path),
                 relative_path |->
                     str_path(SubSeq(file_path, Len(workspace) + 1, Len(file_path))),
                 size |-> mw.files[file_path].size,
                 modified |-> mw.files[file_path].modified] :
                   file_path \in {f \in DOMAIN mw.files : is_below(f, workspace)}})

\* StreamlitThreadDataMiddleware(base_dir, lazy_init): base_dir is created;
\* issued, written and listed are what the callers got and did
StreamlitThreadDataMiddleware(base_dir, lazy_init) ==
    [base_dir |-> base_dir,
     lazy_init |-> lazy_init,
     dirs |-> ancestors(base_dir),
     files |-> <<>>,
     issued |-> <<>>,
     written |-> <<>>,
     listed |-> None]

(***************************************************************************)
(* trace_middleware.py: TraceMiddleware.  now is the reading of            *)
(* datetime.now(); it advances with every reading.                         *)
(***************************************************************************)
\* ToolCallRecord(name=..., arguments=...): result, error and end_time default
\* to None, start_time to now
ToolCallRecord(name, arguments, now) ==
    [name |-> name, arguments |-> arguments, result |-> None, error |-> None,
     start_time |-> now, end_time |-> None]

\* TraceMiddleware.__init__
TraceMiddleware == [tool_calls |-> <<>>, current_call |-> None, llm_calls |-> <<>>]

\* the requests of the agent: request.tool_call with its name and args, or
\* without a name
ToolRequests ==
    {[name |-> "search", args |-> [query |-> Str("kuzu")]],
     [name |-> "calculator", args |-> [query |-> Str("1 + 1")]],
     [args |-> [query |-> Str("kuzu")]]}

\* _extract_tool_info: (tool_name, str(tool_args))
extract_tool_info(request) ==
    <<IF "name" \in DOMAIN request THEN request.name ELSE "<unknown>",
      PyStr(Dict(request.args))>>

\* _extract_result: str(result.content) if the result has a content, else str(result)
extract_result(result) ==
    IF result.k = "obj" /\ "content" \in DOMAIN result.f /\ Truthy(result.f["content"])
    THEN PyStr(result.f["content"])
    ELSE PyStr(result)

\* _start_call: the middleware after it
start_call(mw, request, now) ==
    [mw EXCEPT !.current_call =
        ToolCallRecord(extract_tool_info(request)[1], extract_tool_info(request)[2], now)]

\* _complete_call
complete_call(mw, result, now) ==
    IF mw.current_call # None
    THEN [mw EXCEPT
             !.tool_calls = Append(@, [mw.current_call EXCEPT
                                          !.result = extract_result(result),
                                          !.end_time = now]),
             !.current_call = None]
    ELSE mw

\* _fail_call: str(error) is the message of the exception
fail_call(mw, error, now) ==
    IF mw.current_call # None
    THEN [mw EXCEPT
             !.tool_calls = Append(@, [mw.current_call EXCEPT
                                          !.error = error.message,
                                          !.end_time = now]),
             !.current_call = None]
    ELSE mw

\* the components before anything is called on them
(***************************************************************************)
(* graph_backend.py: KuzuBackend.  conn tells whether self.conn is set;    *)
(* tables is the content of the database at the connection string, which  *)
(* outlives the connection; call is the last call made on the backend,     *)
(* raised and returned its outcome.                                        *)
(***************************************************************************)
KuzuBackend ==
    [conn |-> FALSE, tables |-> <<>>, call |-> <<>>, raised |-> NoError,
     returned |-> NoValue]

\* KuzuBackend.connect
kuzu_connect(bk) == [bk EXCEPT !.conn = TRUE, !.raised = NoError, !.returned = NoValue]

\* KuzuBackend.execute: RuntimeError without a connection, else what
\* conn.execute does
kuzu_execute(bk, stmt) ==
    IF ~bk.conn \/ rejects(bk.tables, stmt)
    THEN [bk EXCEPT !.raised = "RuntimeError", !.returned = NoValue]
    ELSE [bk EXCEPT !.tables = applied(bk.tables, stmt), !.raised = NoError,
                    !.returned = NoValue]

\* KuzuBackend.create_node_table; fields is a sequence of (name, type)
kuzu_create_node_table(bk, table_name, fields, primary_key) ==
    kuzu_execute(bk, CreateNodeTable(table_name, fields, primary_key))

\* KuzuBackend.create_relationship_table, without properties
kuzu_create_relationship_table(bk, rel_name, from_table, to_table) ==
    kuzu_execute(bk, CreateRelTable(rel_name, from_table, to_table))

\* KuzuBackend.drop_table: what execute raises is swallowed
kuzu_drop_table(bk, table_name) ==
    [kuzu_execute(bk, DropTable(table_name)) EXCEPT !.raised = NoError]

\* KuzuBackend.insert_node
kuzu_insert_node(bk, table_name, data) ==
    kuzu_execute(bk, CreateNode(table_name, cleaned_row(data)))

\* KuzuBackend.insert_relationship: WHERE from.{from_table.lower()}_key = ..
kuzu_insert_relationship(bk, rel_name, from_table, from_key, to_table, to_key) ==
    kuzu_execute(bk,
        MatchCreateWhere(from_table, LowerName(from_table) \o "_key", Quoted(Str(from_key)),
                         to_table, LowerName(to_table) \o "_key", Quoted(Str(to_key)),
                         rel_name))

\* KuzuBackend.close
kuzu_close(bk) == [bk EXCEPT !.conn = FALSE, !.raised = NoError, !.returned = NoValue]

\* KuzuBackend.get_query_language
kuzu_get_query_language(bk) == [bk EXCEPT !.raised = NoError, !.returned = Str("Cypher")]

ComponentsIdle ==
    /\ neo4j = Neo4jBackend
    /\ thread_mw = <<>>
    /\ trace_mw = <<>>
    /\ kuzu = KuzuBackend

\* what the handler of call k returns, and what it raises
ToolResults ==
    << Obj("ToolMessage", [content |-> Str("3 tables")]),
       Obj("ToolMessage", [content |-> Str("2")]),
       Obj("ToolMessage", [content |-> Str("")]) >>

ToolErrors ==
    << [k |-> "exc", message |-> Str("timeout")],
       [k |-> "exc", message |-> Str("division by zero")],
       [k |-> "exc", message |-> Str("no such tool")] >>

(***************************************************************************)
(* The declarations and instances explored.                                *)
(***************************************************************************)
Roots == {"Review", "Org"}

NodeCandidates(root) ==
    IF root = "Review"
    THEN { GraphNodeConfig("Review", NameCallable("date"), None, <<>>, FALSE),
           GraphNodeConfig("Opportunity", NameField("name"), None, <<>>, FALSE),
           GraphNodeConfig("Person", NameField("name"), None, <<>>, FALSE),
           GraphNodeConfig("Site", NameField("name"), None, <<>>, FALSE) }
    ELSE { GraphNodeConfig("Org", NameField("name"), None, <<>>, FALSE),
           GraphNodeConfig("Member", NameField("name"), None, <<>>, FALSE),
           GraphNodeConfig("Member", NameField("name"), Str("email"), <<>>, FALSE),
           GraphNodeConfig("Site", NameField("name"), None, <<>>, FALSE) }

RelationCandidates(root) ==
    IF root = "Review"
    THEN { GraphRelationConfig("Review", "Opportunity", "REVIEWS"),
           GraphRelationConfig("Review", "Person", "HAS_PERSON"),
           GraphRelationConfig("Review", "Person", "KNOWS"),
           GraphRelationConfig("Opportunity", "Person", "OWNED_BY") }
    ELSE { GraphRelationConfig("Org", "Member", "EMPLOYS"),
           GraphRelationConfig("Site", "Member", "HAS_CONTACT"),
           GraphRelationConfig("Org", "Org", "PARENT_OF") }

\* the declarations of the Review/Opportunity/Person scenario
ScenarioNodes ==
    << GraphNodeConfig("Review", NameCallable("date"), None, <<>>, FALSE),
       GraphNodeConfig("Opportunity", NameField("name"), None, <<>>, FALSE),
       GraphNodeConfig("Person", NameField("name"), None, <<>>, FALSE) >>

ScenarioRelations ==
    << GraphRelationConfig("Review", "Opportunity", "REVIEWS"),
       GraphRelationConfig("Review", "Person", "HAS_PERSON") >>

SampleSchemas(root) ==
    IF root = "Review"
    THEN { [nodes |-> ScenarioNodes, relations |-> ScenarioRelations],
           [nodes |-> [ScenarioNodes EXCEPT ![3] =
                          GraphNodeConfig("Person", NameField("name"), Str("name"), <<>>, FALSE)],
            relations |-> ScenarioRelations] }
    ELSE { [nodes |-> << GraphNodeConfig("Org", NameField("name"), None, <<>>, FALSE),
                         GraphNodeConfig("Member", NameField("name"), None, <<>>, FALSE),
                         GraphNodeConfig("Site", NameField("name"), None, <<>>, FALSE) >>,
            relations |-> << GraphRelationConfig("Org", "Member", "EMPLOYS"),
                             GraphRelationConfig("Site", "Member", "HAS_CONTACT") >>],
           [nodes |-> << GraphNodeConfig("Org", NameField("name"), None, <<>>, FALSE),
                         GraphNodeConfig("Member", NameField("name"), Str("email"), <<>>, FALSE),
                         GraphNodeConfig("Site", NameField("name"), None, <<>>, FALSE) >>,
            relations |-> << GraphRelationConfig("Org", "Member", "EMPLOYS"),
                             GraphRelationConfig("Site", "Member", "HAS_CONTACT") >>] }

\* schemas with an embedding: the `embedded` list, and the legacy flag
EmbeddingSchemas(root) ==
    IF root = "Review"
    THEN { [nodes |-> << GraphNodeConfig("Review", NameCallable("date"), None,
                                         << <<"opportunity", "Opportunity">> >>, FALSE),
                         GraphNodeConfig("Person", NameField("name"), None, <<>>, FALSE) >>,
            relations |-> << GraphRelationConfig("Review", "Person", "HAS_PERSON"),
                             GraphRelationConfig("Review", "Person", "KNOWS") >>],
           [nodes |-> << GraphNodeConfig("Review", NameCallable("date"), None, <<>>, FALSE),
                         GraphNodeConfig("Opportunity", NameField("name"), None, <<>>, TRUE),
                         GraphNodeConfig("Person", NameField("name"), None, <<>>, FALSE) >>,
            relations |-> ScenarioRelations] }
    ELSE { [nodes |-> << GraphNodeConfig("Org", NameField("name"), None,
                                         << <<"site", "Site">> >>, FALSE),
                         GraphNodeConfig("Member", NameField("name"), None, <<>>, FALSE) >>,
            relations |-> << GraphRelationConfig("Org", "Member", "EMPLOYS"),
                             GraphRelationConfig("Org", "Org", "PARENT_OF") >>],
           [nodes |-> << GraphNodeConfig("Org", NameField("name"), None, <<>>, FALSE),
                         GraphNodeConfig("Site", NameField("name"), None, <<>>, TRUE),
                         GraphNodeConfig("Member", NameField("name"), None, <<>>, FALSE) >>,
            relations |-> << GraphRelationConfig("Org", "Member", "EMPLOYS"),
                             GraphRelationConfig("Site", "Member", "HAS_CONTACT") >>],
           [nodes |-> << GraphNodeConfig("Org", NameField("name"), None, <<>>, FALSE),
                         GraphNodeConfig("Site", NameField("name"), None, <<>>, TRUE),
                         GraphNodeConfig("Member", NameField("name"), None, <<>>, FALSE) >>,
            relations |-> << GraphRelationConfig("Org", "Member", "EMPLOYS") >>] }

Person(name) == Obj("Person", [name |-> Str(name)])
Opportunity(name) == Obj("Opportunity", [name |-> Str(name)])
Review(date, opportunity, people) ==
    Obj("Review", [date |-> Str(date), opportunity |-> opportunity, people |-> List(people)])
Member(name, email) == Obj("Member", [name |-> name, email |-> email])
Site(name, contact) == Obj("Site", [name |-> Str(name), contact |-> contact])
Org(name, parent, lead, members, site) ==
    Obj("Org", [name |-> Str(name), parent |-> parent, lead |-> lead,
                members |-> List(members), site |-> site])

PersonValues == {Person("Alice"), Person("Bob"), Person("")}

MemberValues ==
    { Member(Str("Alice"), Str("a@x")), Member(Str("Bob"), Str("a@x")),
      Member(Str("Alice"), None), Member(None, None) }

Instances(root) ==
    IF root = "Review"
    THEN { Review("2024-01-01", Opportunity("Acme Deal"), people) :
              people \in SeqsUpTo(PersonValues, MaxItems) }
    ELSE { Org("Initech", parent, lead, members, site) :
              parent \in {None, Org("Holding", None, None, <<>>, None)},
              lead \in {None, Member(Str("Alice"), Str("a@x"))},
              members \in SeqsUpTo(MemberValues, MaxItems),
              site \in {None, Site("Austin", None),
                        Site("Austin", Member(Str("Bob"), Str("a@x")))} }

SampleInstances(root) ==
    IF root = "Review"
    THEN { Review("2024-01-01", Opportunity("Acme Deal"), <<Person("Alice"), Person("Bob")>>) }
    ELSE { Org("Initech", None, Member(Str("Alice"), Str("a@x")),
               <<Member(Str("Alice"), Str("a@x")), Member(Str("Bob"), Str("a@x"))>>,
               Site("Austin", Member(Str("Bob"), Str("a@x")))) }

\* schemas with a relation from a nested type back to the root type, and
\* with a relation between two items at one path
RootTargetSchemas(root) ==
    IF root = "Review"
    THEN { [nodes |-> << GraphNodeConfig("Review", NameCallable("date"), None, <<>>, FALSE),
                         GraphNodeConfig("Person", NameField("name"), None, <<>>, FALSE) >>,
            relations |-> << GraphRelationConfig("Person", "Review", "ATTENDED"),
                             GraphRelationConfig("Person", "Person", "KNOWS") >>] }
    ELSE { [nodes |-> << GraphNodeConfig("Org", NameField("name"), None, <<>>, FALSE),
                         GraphNodeConfig("Member", NameField("name"), None, <<>>, FALSE),
                         GraphNodeConfig("Site", NameField("name"), None, <<>>, FALSE) >>,
            relations |-> << GraphRelationConfig("Member", "Site", "SITS_AT"),
                             GraphRelationConfig("Site", "Member", "HAS_CONTACT") >>] }

\* instances in which the target of a relation has a null deduplication key,
\* or a null name
NullKeyInstances(root) ==
    IF root = "Review"
    THEN { Review("2024-01-01", Opportunity("Acme Deal"),
                  <<Obj("Person", [name |-> None]), Obj("Person", [name |-> None])>>) }
    ELSE { Org("Initech", None, Member(Str("Alice"), None),
               <<Member(Str("Alice"), None), Member(Str("Alice"), None)>>, None),
           Org("Initech", None, Member(None, Str("a@x")),
               <<Member(None, None), Member(Str("Bob"), Str("b@x"))>>, None) }

\* schemas whose deduplication key names a field the node pass adds to the
\* row: the display name, and a prefixed field of an embedded sub-object
AddedKeySchemas(root) ==
    IF root = "Review"
    THEN { [nodes |-> [ScenarioNodes EXCEPT ![3] =
                          GraphNodeConfig("Person", NameField("name"), Str("_name"), <<>>, FALSE)],
            relations |-> ScenarioRelations] }
    ELSE { [nodes |-> << GraphNodeConfig("Org", NameField("name"), None, <<>>, FALSE),
                         GraphNodeConfig("Member", NameField("name"), Str("_name"), <<>>, FALSE) >>,
            relations |-> << GraphRelationConfig("Org", "Member", "EMPLOYS") >>],
           [nodes |-> << GraphNodeConfig("Org", NameField("name"), Str("site_name"),
                                         << <<"site", "Site">> >>, FALSE),
                         GraphNodeConfig("Member", NameField("name"), None, <<>>, FALSE) >>,
            relations |-> << GraphRelationConfig("Org", "Member", "EMPLOYS") >>] }

\* a root type that reaches one type through several fields, that type
\* referring back to the root type
SharedTypeRoots == {"Team"}

Desk(name, owner) == Obj("Desk", [name |-> Str(name), owner |-> owner, team |-> None])
Team(name, main, backup, desks) ==
    Obj("Team", [name |-> Str(name), main |-> main, backup |-> backup,
                 desks |-> List(desks)])

SharedTypeSchemas ==
    { [nodes |-> << GraphNodeConfig("Team", NameField("name"), None, <<>>, FALSE),
                    GraphNodeConfig("Desk", NameField("name"), None,
                                    << <<"owner", "Member">> >>, FALSE) >>,
       relations |-> << GraphRelationConfig("Team", "Desk", "HAS_DESK") >>],
      [nodes |-> << GraphNodeConfig("Team", NameField("name"), None, <<>>, FALSE),
                    GraphNodeConfig("Desk", NameField("name"), None, <<>>, FALSE),
                    GraphNodeConfig("Member", NameField("name"), None, <<>>, FALSE) >>,
       relations |-> << GraphRelationConfig("Team", "Desk", "HAS_DESK"),
                        GraphRelationConfig("Desk", "Member", "OWNED_BY") >>] }

SharedTypeInstances ==
    { Team("Core", Desk("D1", Member(Str("Alice"), Str("a@x"))),
                   Desk("D2", Member(Str("Bob"), Str("b@x"))),
                   << Desk("D3", None), Desk("D1", Member(Str("Alice"), Str("a@x"))) >>),
      Team("Core", None, Desk("D2", Member(Str("Bob"), Str("b@x"))),
                   << Desk("D2", Member(Str("Bob"), Str("b@x"))) >>),
      Team("Core", Desk("D1", None), None, <<>>) }

SharedTypeInputs ==
    { [nodes |-> sch.nodes, relations |-> sch.relations, model |-> m] :
          sch \in SharedTypeSchemas, m \in SharedTypeInstances }

DeclaredInputs(root) ==
    { [nodes |-> ns, relations |-> rs, model |-> m] :
          ns \in InjectiveSeqs(NodeCandidates(root), MaxDecls),
          rs \in InjectiveSeqs(RelationCandidates(root), MaxRels),
          m \in SampleInstances(root) }
    \cup
    { [nodes |-> sch.nodes, relations |-> sch.relations, model |-> m] :
          sch \in SampleSchemas(root), m \in Instances(root) }
    \cup
    { [nodes |-> sch.nodes, relations |-> sch.relations, model |-> m] :
          sch \in EmbeddingSchemas(root), m \in SampleInstances(root) }
    \cup
    { [nodes |-> sch.nodes, relations |-> sch.relations, model |-> m] :
          sch \in SampleSchemas(root), m \in NullKeyInstances(root) }
    \cup
    { [nodes |-> sch.nodes, relations |-> sch.relations, model |-> m] :
          sch \in RootTargetSchemas(root), m \in SampleInstances(root) }
    \cup
    { [nodes |-> sch.nodes, relations |-> sch.relations, model |-> m] :
          sch \in AddedKeySchemas(root), m \in SampleInstances(root) }

Inputs(root) == IF root \in SharedTypeRoots THEN SharedTypeInputs ELSE DeclaredInputs(root)

Init ==
    /\ root_model_class \in Roots \cup SharedTypeRoots
    /\ \E input \in Inputs(root_model_class) :
          /\ nodes = input.nodes
          /\ relations = input.relations
          /\ model = input.model
    /\ model_field_map = <<>>
    /\ warnings = <<>>
    /\ pc = "declared"
    /\ nodes_dict = <<>>
    /\ relationships = <<>>
    /\ id_registry = <<>>
    /\ node_registry = <<>>
    /\ raised = NoError
    /\ backend = [db |-> <<>>, log |-> <<>>]
    /\ next_uuid = 0
    /\ clock = 0
    /\ runs = <<>>
    /\ reordered = <<>>
    /\ ComponentsIdle

\* GraphSchema(root_model_class, nodes, relations): the model validator
Deduce ==
    /\ pc = "declared"
    /\ \E missing_order \in SetOrders(missing_classes(nodes, relations)) :
          LET ns == deduced_nodes(nodes, relations, root_model_class)
              rs == deduced_relations(nodes, relations, root_model_class)
          IN /\ model_field_map' = build_model_field_map(root_model_class)
             /\ nodes' = ns
             /\ relations' = rs
             /\ warnings' = validate_coherence(ns, rs, root_model_class, missing_order)
    /\ pc' = "schema"
    /\ UNCHANGED <<root_model_class, model, nodes_dict, relationships, id_registry,
                   node_registry, raised, next_uuid, clock, runs, reordered, backend>>
    /\ UNCHANGED component_vars

\* create_graph, "Prepare nodes with computed is_list flags": the class reached
\* by following the annotations of parts[:-1] from type(model)
RECURSIVE walk_annotations(_, _, _)
walk_annotations(current_model, parts, i) ==
    IF i > Len(parts) - 1 THEN current_model
    ELSE LET flds == IF current_model \in ModelClasses
                     THEN model_fields(current_model) ELSE <<>>
             hit == {j \in DOMAIN flds : flds[j].name = parts[i]}
             fld == flds[CHOOSE j \in hit : TRUE]
             nxt == IF hit = {} THEN current_model
                    ELSE IF fld.ann \in {"optional_model", "list_model"} THEN fld.type
                    ELSE IF fld.ann = "optional_list_model" THEN "list"
                    ELSE current_model
         IN walk_annotations(nxt, parts, i + 1)

prepared_is_list(field_path, root_model) ==
    IF ~path_truthy(field_path) THEN FALSE
    ELSE LET owner == walk_annotations(root_model.t, field_path, 1)
             flds == IF owner \in ModelClasses THEN model_fields(owner) ELSE <<>>
         IN \/ get_field_by_path(root_model, field_path).k = "list"
            \/ \E j \in DOMAIN flds :
                  flds[j].name = field_path[Len(field_path)] /\ flds[j].ann = "list_model"

first_or_none(paths) == IF paths # <<>> THEN paths[1] ELSE NoPath

prepared_node(node_config, root_model) ==
    [node_config EXCEPT
        !.field_path_ = first_or_none(node_config.field_paths),
        !.is_list_ = prepared_is_list(first_or_none(node_config.field_paths), root_model)]

\* a preparation that leaves the paths of a relation unset
prepared_relation_unset(relation_config) ==
    [relation_config EXCEPT !.from_field_path_ = NoPath, !.to_field_path_ = NoPath]

\* "Prepare relations with field paths"
prepared_relation(relation_config) ==
    IF relation_config.field_paths # <<>>
    THEN [relation_config EXCEPT !.from_field_path_ = relation_config.field_paths[1][1],
                                 !.to_field_path_ = relation_config.field_paths[1][2]]
    ELSE [relation_config EXCEPT !.from_field_path_ = NoPath,
                                 !.to_field_path_ = NoPath]

\* create_graph, up to the call of extract_graph_data
PrepareGraph ==
    /\ pc = "schema"
    /\ Len(runs) < MaxRuns
    /\ nodes' = [i \in DOMAIN nodes |-> prepared_node(nodes[i], model)]
    /\ relations' = [i \in DOMAIN relations |-> prepared_relation(relations[i])]
    /\ backend' = [backend EXCEPT !.log = <<>>]
    /\ pc' = "prepared"
    /\ UNCHANGED <<root_model_class, model_field_map, warnings, model, nodes_dict,
                   relationships, id_registry, node_registry, raised, next_uuid,
                   clock, runs, reordered>>
    /\ UNCHANGED component_vars

\* create_graph: the call of create_schema, which returns or raises
CreateSchema ==
    /\ pc = "prepared"
    /\ LET out == create_schema(backend, nodes, relations)
       IN /\ backend' = out.conn
          /\ raised' = IF out.raised THEN "RuntimeError" ELSE raised
          /\ pc' = IF out.raised THEN "failed" ELSE "tables_created"
    /\ UNCHANGED <<root_model_class, nodes, relations, model_field_map, warnings,
                   model, nodes_dict, relationships, id_registry, node_registry,
                   next_uuid, clock, runs, reordered>>
    /\ UNCHANGED component_vars

\* extract_graph_data: buckets and the loop over nodes
ExtractNodes ==
    /\ pc = "tables_created"
    /\ LET out == node_pass(init_buckets(nodes, next_uuid), nodes, 1, model, clock + 1)
       IN /\ nodes_dict' = out.nodes_dict
          /\ node_registry' = out.node_registry
          /\ id_registry' = out.id_registry
          /\ next_uuid' = out.drawn
    /\ relationships' = <<>>
    /\ clock' = clock + 1
    /\ pc' = "nodes_extracted"
    /\ UNCHANGED <<root_model_class, nodes, relations, model_field_map, warnings,
                   model, raised, runs, reordered, backend>>
    /\ UNCHANGED component_vars

\* extract_graph_data: the loop over relations, and the return to the caller
ExtractEdges ==
    /\ pc = "nodes_extracted"
    /\ LET out == edge_pass(relations, 1, nodes, model, id_registry)
       IN /\ relationships' = out.edges
          /\ raised' = IF out.raised THEN "AttributeError" ELSE raised
          /\ pc' = IF out.raised THEN "failed" ELSE "extracted"
    /\ UNCHANGED <<root_model_class, nodes, relations, model_field_map, warnings,
                   model, nodes_dict, id_registry, node_registry, next_uuid, clock,
                   runs, reordered, backend>>
    /\ UNCHANGED component_vars

\* create_graph: the call of load_graph_data, and the return to the caller
LoadGraphData ==
    /\ pc = "extracted"
    /\ LET loaded == load_graph_data(backend, nodes_dict, relationships, nodes)
       IN /\ backend' = loaded
          /\ runs' = Append(runs, [nodes_dict |-> nodes_dict,
                                   relationships |-> relationships, db |-> loaded.db])
    /\ pc' = "schema"
    /\ UNCHANGED <<root_model_class, nodes, relations, model_field_map, warnings,
                   model, nodes_dict, relationships, id_registry, node_registry,
                   raised, next_uuid, clock, reordered>>
    /\ UNCHANGED component_vars

swap(s, i) ==
    [j \in DOMAIN s |-> IF j = i THEN s[i + 1] ELSE IF j = i + 1 THEN s[i] ELSE s[j]]

\* a second GraphSchema built from the same declarations, two neighbours of
\* one of the lists exchanged
DeduceReordered ==
    /\ pc = "schema"
    /\ runs = <<>>
    /\ \/ \E i \in 1..(Len(nodes) - 1) :
             reordered' = deduced_nodes(swap(nodes, i), relations, root_model_class)
       \/ \E i \in 1..(Len(relations) - 1) :
             reordered' = deduced_nodes(nodes, swap(relations, i), root_model_class)
    /\ pc' = "reordered"
    /\ UNCHANGED <<root_model_class, nodes, relations, model_field_map, warnings,
                   model, nodes_dict, relationships, id_registry, node_registry,
                   raised, next_uuid, clock, runs, backend>>
    /\ UNCHANGED component_vars

Next ==
    \/ Deduce
    \/ PrepareGraph
    \/ CreateSchema
    \/ ExtractNodes
    \/ ExtractEdges
    \/ LoadGraphData
    \/ DeduceReordered

Spec == Init /\ [][Next]_vars

(***************************************************************************)
(* The loader on its own: create_schema and load_graph_data called on a    *)
(* connection with a prepared schema and a node table and edge list, once  *)
(* and again.  The node table is what extraction returns, or that with the *)
(* id of one row null or equal to the id of the row before it.             *)
(***************************************************************************)
\* a schema as create_graph hands it to create_schema
prepared_schema(sch, root, m) ==
    [nodes |-> [i \in DOMAIN sch.nodes |->
                   prepared_node(deduced_nodes(sch.nodes, sch.relations, root)[i], m)],
     relations |-> [i \in DOMAIN sch.relations |->
                       prepared_relation(deduced_relations(sch.nodes, sch.relations, root)[i])]]

\* what extract_graph_data returns for a prepared schema and an instance
extracted(ns, rs, m) ==
    [nodes_dict |-> node_pass(init_buckets(ns, 0), ns, 1, m, 1).nodes_dict,
     relationships |->
         edge_pass(rs, 1, ns, m, node_pass(init_buckets(ns, 0), ns, 1, m, 1).id_registry).edges]

\* schemas whose relations have an endpoint without a node table
UndeclaredEndpointSchemas(root) ==
    IF root = "Review"
    THEN { [nodes |-> SubSeq(ScenarioNodes, 1, 2), relations |-> ScenarioRelations] }
    ELSE { [nodes |-> << GraphNodeConfig("Org", NameField("name"), None, <<>>, FALSE),
                         GraphNodeConfig("Member", NameField("name"), None, <<>>, FALSE) >>,
            relations |-> << GraphRelationConfig("Org", "Member", "EMPLOYS"),
                             GraphRelationConfig("Site", "Member", "HAS_CONTACT") >>] }

LoaderSchemas(root) ==
    SampleSchemas(root) \cup EmbeddingSchemas(root) \cup UndeclaredEndpointSchemas(root)

LoaderInstances(root) ==
    SampleInstances(root) \cup
    (IF root = "Review"
     THEN { Review("2024-01-01", Opportunity("Acme Deal"), <<Person("Alice"), Person("Alice")>>) }
     ELSE { Org("Initech", None, None, <<Member(Str("Alice"), None)>>, None) })

\* the node tables handed to the loader: table, and table with one id changed
NodeTableVariants(table) ==
    {table}
    \cup { [table EXCEPT ![t][a] = [@ EXCEPT !["id"] = None]] :
              t \in {u \in DOMAIN table : table[u] # <<>>}, a \in 1..MaxItems }
    \cup { [table EXCEPT ![t][a] = [@ EXCEPT !["id"] = table[t][1]["id"]]] :
              t \in {u \in DOMAIN table : Len(table[u]) >= 2}, a \in 2..MaxItems }

\* the tables in the database before the first load: none, or the node table
\* of an earlier schema with a relationship table on it
InitialTables(root) ==
    LET stale == IF root = "Review" THEN "Person" ELSE "Member"
    IN { <<>>,
         (stale :> [kind |-> "node", fields |-> << <<"id", "STRING">> >>,
                    primary_key |-> "id", rows |-> <<>>])
         @@ ("KNOWS_OF" :> [kind |-> "rel", from |-> stale, to |-> stale, rows |-> <<>>]) }

LoaderInit ==
    /\ root_model_class \in Roots
    /\ \E sch \in LoaderSchemas(root_model_class), m \in LoaderInstances(root_model_class) :
          /\ nodes = prepared_schema(sch, root_model_class, m).nodes
          /\ relations = prepared_schema(sch, root_model_class, m).relations
          /\ model = m
    /\ relationships = extracted(nodes, relations, model).relationships
    /\ nodes_dict \in NodeTableVariants(extracted(nodes, relations, model).nodes_dict)
    /\ backend \in {[db |-> db, log |-> <<>>] : db \in InitialTables(root_model_class)}
    /\ model_field_map = build_model_field_map(root_model_class)
    /\ warnings = <<>>
    /\ pc = "loader_ready"
    /\ id_registry = <<>>
    /\ node_registry = <<>>
    /\ raised = NoError
    /\ next_uuid = 0
    /\ clock = 0
    /\ runs = <<>>
    /\ reordered = <<>>
    /\ ComponentsIdle

\* create_schema(conn, nodes, relations), the first step of a load
LoaderCreateSchema ==
    /\ pc \in {"loader_ready", "loader_done", "loader_failed"}
    /\ Len(runs) < MaxRuns
    /\ LET out == create_schema([backend EXCEPT !.log = <<>>], nodes, relations)
       IN /\ backend' = out.conn
          /\ raised' = IF out.raised THEN "RuntimeError" ELSE NoError
          /\ pc' = IF out.raised THEN "loader_failed" ELSE "loader_tables"
          /\ runs' = IF out.raised
                     THEN Append(runs, [db |-> out.conn.db, raised |-> TRUE])
                     ELSE runs
    /\ UNCHANGED <<root_model_class, nodes, relations, model_field_map, warnings,
                   model, nodes_dict, relationships, id_registry, node_registry,
                   next_uuid, clock, reordered>>
    /\ UNCHANGED component_vars

\* load_graph_data(conn, nodes_dict, relationships, nodes), the second step
LoaderLoadData ==
    /\ pc = "loader_tables"
    /\ LET loaded == load_graph_data(backend, nodes_dict, relationships, nodes)
       IN /\ backend' = loaded
          /\ runs' = Append(runs, [db |-> loaded.db, raised |-> FALSE])
    /\ pc' = "loader_done"
    /\ UNCHANGED <<root_model_class, nodes, relations, model_field_map, warnings,
                   model, nodes_dict, relationships, id_registry, node_registry,
                   raised, next_uuid, clock, reordered>>
    /\ UNCHANGED component_vars

LoaderNext ==
    \/ LoaderCreateSchema
    \/ LoaderLoadData

LoaderSpec == LoaderInit /\ [][LoaderNext]_vars

(***************************************************************************)
(* The components on their own.  While one is exercised the pipeline       *)
(* stands still, and the other way round.                                  *)
(***************************************************************************)
PipelineIdle ==
    /\ root_model_class = "Review"
    /\ nodes = <<>>
    /\ relations = <<>>
    /\ model_field_map = <<>>
    /\ warnings = <<>>
    /\ model = None
    /\ pc = "idle"
    /\ nodes_dict = <<>>
    /\ relationships = <<>>
    /\ id_registry = <<>>
    /\ node_registry = <<>>
    /\ raised = NoError
    /\ backend = [db |-> <<>>, log |-> <<>>]
    /\ next_uuid = 0
    /\ clock = 0
    /\ runs = <<>>
    /\ reordered = <<>>

(***************************************************************************)
(* Calls on a Neo4jBackend.                                                *)
(***************************************************************************)
Neo4jInit ==
    /\ PipelineIdle
    /\ neo4j = Neo4jBackend
    /\ thread_mw = <<>>
    /\ trace_mw = <<>>
    /\ kuzu = KuzuBackend

\* a call of one method: its outcome joins the outcomes seen by the caller
Neo4jCall(method) ==
    /\ Len(neo4j.calls) < MaxCalls
    /\ neo4j' = [neo4j EXCEPT !.calls =
                    Append(@, [method |-> method,
                               raised |-> neo4j_method(method).raised,
                               returned |-> neo4j_method(method).returned])]
    /\ UNCHANGED <<pc, pipeline_vars, thread_mw, trace_mw, kuzu>>

Neo4jConnect == Neo4jCall("connect")
Neo4jExecute == Neo4jCall("execute")
Neo4jCreateNodeTable == Neo4jCall("create_node_table")
Neo4jCreateRelationshipTable == Neo4jCall("create_relationship_table")
Neo4jDropTable == Neo4jCall("drop_table")
Neo4jInsertNode == Neo4jCall("insert_node")
Neo4jInsertRelationship == Neo4jCall("insert_relationship")
Neo4jClose == Neo4jCall("close")
Neo4jGetQueryLanguage == Neo4jCall("get_query_language")

Neo4jNext ==
    \/ Neo4jConnect
    \/ Neo4jExecute
    \/ Neo4jCreateNodeTable
    \/ Neo4jCreateRelationshipTable
    \/ Neo4jDropTable
    \/ Neo4jInsertNode
    \/ Neo4jInsertRelationship
    \/ Neo4jClose
    \/ Neo4jGetQueryLanguage

Neo4jSpec == Neo4jInit /\ [][Neo4jNext]_vars

(***************************************************************************)
(* Sessions on a StreamlitThreadDataMiddleware: before_agent for a thread, *)
(* a skill writing a file below the workspace path it was given, the page  *)
(* listing the files of a thread.                                          *)
(***************************************************************************)
ThreadDataInit ==
    /\ PipelineIdle
    /\ neo4j = Neo4jBackend
    /\ trace_mw = <<>>
    /\ kuzu = KuzuBackend
    /\ \E lazy_init \in BOOLEAN :
          thread_mw = StreamlitThreadDataMiddleware(<<"base">>, lazy_init)

\* before_agent(state, runtime): the update it returns is kept by the caller
BeforeAgent ==
    \E config \in ThreadIds \cup {""}, context \in ThreadIds \cup {""} :
        LET thread_id == runtime_thread_id([config |-> config, context |-> context])
        IN /\ thread_mw' =
                 [thread_mw EXCEPT
                     !.dirs = IF thread_mw.lazy_init THEN @
                              ELSE create_thread_directories(thread_mw, thread_id),
                     !.issued = (thread_id :> get_thread_paths(thread_mw, thread_id)) @@ @]
           /\ UNCHANGED <<pc, pipeline_vars, neo4j, trace_mw, kuzu>>

\* a skill of thread t writes a file below state["thread_data"]["workspace_path"]
WriteFile ==
    \E t \in DOMAIN thread_mw.issued, name \in FileNames :
        LET workspace == path_of(thread_mw, thread_mw.issued[t].workspace_path)
        IN /\ Len(thread_mw.written) < MaxWrites
           /\ workspace \in thread_mw.dirs
           /\ thread_mw' =
                 [thread_mw EXCEPT
                     !.dirs = makedirs(@, SubSeq(workspace \o name, 1,
                                                 Len(workspace \o name) - 1)),
                     !.files = ((workspace \o name) :>
                                   [size |-> 1, modified |-> Len(thread_mw.written) + 1])
                               @@ @,
                     !.written = Append(@, [thread_id |-> t,
                                            relative_path |-> str_path(name)])]
           /\ UNCHANGED <<pc, pipeline_vars, neo4j, trace_mw, kuzu>>

\* list_workspace_files(thread_id), called by the page
ListWorkspaceFiles ==
    \E t \in ThreadIds :
        /\ thread_mw' =
              [thread_mw EXCEPT
                  !.listed = [thread_id |-> t,
                              files |-> list_workspace_files(thread_mw, t),
                              after |-> Len(thread_mw.written)]]
        /\ UNCHANGED <<pc, pipeline_vars, neo4j, trace_mw, kuzu>>

ThreadDataNext ==
    \/ BeforeAgent
    \/ WriteFile
    \/ ListWorkspaceFiles

ThreadDataSpec == ThreadDataInit /\ [][ThreadDataNext]_vars

(***************************************************************************)
(* Tool calls through a TraceMiddleware.  calls[k] is the k-th call the    *)
(* agent makes: where it stands, its request and how it ended.  A          *)
(* synchronous call runs from start to end in one step; an asynchronous    *)
(* call gives way to the others while it awaits its handler.               *)
(***************************************************************************)
TraceInit ==
    /\ PipelineIdle
    /\ neo4j = Neo4jBackend
    /\ thread_mw = <<>>
    /\ trace_mw = [mw |-> TraceMiddleware, now |-> 0, calls |-> <<>>, ended |-> <<>>]
    /\ kuzu = KuzuBackend

awaiting == {k \in DOMAIN trace_mw.calls : trace_mw.calls[k].at = "await"}

\* what a call that ended is expected to have left in tool_calls
outcome_of(request, result, error) ==
    [name |-> extract_tool_info(request)[1], arguments |-> extract_tool_info(request)[2],
     result |-> result, error |-> error]

\* wrap_tool_call(request, handler), the handler returning or raising
WrapToolCall ==
    /\ Len(trace_mw.calls) < MaxCalls
    /\ awaiting = {}
    /\ \E request \in ToolRequests, raises \in BOOLEAN :
          LET k == Len(trace_mw.calls) + 1
              started == start_call(trace_mw.mw, request, trace_mw.now + 1)
          IN trace_mw' =
                [mw |-> IF raises
                        THEN fail_call(started, ToolErrors[k], trace_mw.now + 2)
                        ELSE complete_call(started, ToolResults[k], trace_mw.now + 2),
                 now |-> trace_mw.now + 2,
                 calls |-> Append(trace_mw.calls,
                                  [at |-> IF raises THEN "raised" ELSE "returned",
                                   request |-> request]),
                 ended |-> Append(trace_mw.ended,
                                  IF raises
                                  THEN outcome_of(request, None, ToolErrors[k].message)
                                  ELSE outcome_of(request, extract_result(ToolResults[k]),
                                                  None))]
    /\ UNCHANGED <<pc, pipeline_vars, neo4j, thread_mw, kuzu>>

\* awrap_tool_call(request, handler) up to `await handler(request)`
AwrapStart ==
    /\ Len(trace_mw.calls) < MaxCalls
    /\ \E request \in ToolRequests :
          trace_mw' =
             [trace_mw EXCEPT
                 !.mw = start_call(@, request, trace_mw.now + 1),
                 !.now = @ + 1,
                 !.calls = Append(@, [at |-> "await", request |-> request])]
    /\ UNCHANGED <<pc, pipeline_vars, neo4j, thread_mw, kuzu>>

\* awrap_tool_call after the handler returned: _complete_call, return result
AwrapReturn ==
    /\ \E k \in awaiting :
          trace_mw' =
             [trace_mw EXCEPT
                 !.mw = complete_call(@, ToolResults[k], trace_mw.now + 1),
                 !.now = @ + 1,
                 !.calls[k].at = "returned",
                 !.ended = Append(@, outcome_of(trace_mw.calls[k].request,
                                                extract_result(ToolResults[k]), None))]
    /\ UNCHANGED <<pc, pipeline_vars, neo4j, thread_mw, kuzu>>

\* awrap_tool_call after the handler raised: _fail_call, raise
AwrapRaise ==
    /\ \E k \in awaiting :
          trace_mw' =
             [trace_mw EXCEPT
                 !.mw = fail_call(@, ToolErrors[k], trace_mw.now + 1),
                 !.now = @ + 1,
                 !.calls[k].at = "raised",
                 !.ended = Append(@, outcome_of(trace_mw.calls[k].request, None,
                                                ToolErrors[k].message))]
    /\ UNCHANGED <<pc, pipeline_vars, neo4j, thread_mw, kuzu>>

TraceNext ==
    \/ WrapToolCall
    \/ AwrapStart
    \/ AwrapReturn
    \/ AwrapRaise

TraceSpec == TraceInit /\ [][TraceNext]_vars

(***************************************************************************)
(* Calls on a KuzuBackend: two node tables, keyed by id or by a field      *)
(* named after the table, and one relationship table between them.         *)
(***************************************************************************)
KuzuTables == {"Person", "Opportunity"}

KuzuKeyFields(table_name) == {"id", LowerName(table_name) \o "_key"}

KuzuKeys == {"k1", "k2"}

KuzuRelation == [name |-> "OWNS", from |-> "Person", to |-> "Opportunity"]

KuzuInit ==
    /\ PipelineIdle
    /\ neo4j = Neo4jBackend
    /\ thread_mw = <<>>
    /\ trace_mw = <<>>
    /\ kuzu = KuzuBackend

\* the number of edges in the relationship table, 0 without the table
edge_count(bk) ==
    IF is_rel_table(bk.tables, KuzuRelation.name)
    THEN Len(bk.tables[KuzuRelation.name].rows) ELSE 0

KuzuConnect ==
    /\ kuzu' = [kuzu_connect(kuzu) EXCEPT !.call = <<"connect">>]
    /\ UNCHANGED <<pc, pipeline_vars, neo4j, thread_mw, trace_mw>>

KuzuExecute ==
    /\ \E table_name \in KuzuTables \cup {KuzuRelation.name} :
          kuzu' = [kuzu_execute(kuzu, DropTable(table_name)) EXCEPT
                      !.call = <<"execute", table_name>>]
    /\ UNCHANGED <<pc, pipeline_vars, neo4j, thread_mw, trace_mw>>

KuzuCreateNodeTable ==
    /\ \E table_name \in KuzuTables : \E primary_key \in KuzuKeyFields(table_name) :
          kuzu' = [kuzu_create_node_table(kuzu, table_name,
                                          << <<primary_key, "STRING">> >>, primary_key)
                   EXCEPT !.call = <<"create_node_table", table_name, primary_key>>]
    /\ UNCHANGED <<pc, pipeline_vars, neo4j, thread_mw, trace_mw>>

KuzuCreateRelationshipTable ==
    /\ kuzu' = [kuzu_create_relationship_table(kuzu, KuzuRelation.name, KuzuRelation.from,
                                              KuzuRelation.to)
                EXCEPT !.call = <<"create_relationship_table">>]
    /\ UNCHANGED <<pc, pipeline_vars, neo4j, thread_mw, trace_mw>>

KuzuDropTable ==
    /\ \E table_name \in KuzuTables \cup {KuzuRelation.name} :
          kuzu' = [kuzu_drop_table(kuzu, table_name) EXCEPT
                      !.call = <<"drop_table", table_name>>]
    /\ UNCHANGED <<pc, pipeline_vars, neo4j, thread_mw, trace_mw>>

KuzuInsertNode ==
    /\ \E table_name \in KuzuTables : \E field \in KuzuKeyFields(table_name) :
       \E key \in KuzuKeys :
          kuzu' = [kuzu_insert_node(kuzu, table_name, (field :> Str(key))) EXCEPT
                      !.call = <<"insert_node", table_name, field, key>>]
    /\ UNCHANGED <<pc, pipeline_vars, neo4j, thread_mw, trace_mw>>

KuzuInsertRelationship ==
    /\ edge_count(kuzu) < MaxItems
    /\ \E from_key, to_key \in KuzuKeys :
          kuzu' = [kuzu_insert_relationship(kuzu, KuzuRelation.name, KuzuRelation.from,
                                            from_key, KuzuRelation.to, to_key)
                   EXCEPT !.call = <<"insert_relationship", from_key, to_key,
                                     edge_count(kuzu)>>]
    /\ UNCHANGED <<pc, pipeline_vars, neo4j, thread_mw, trace_mw>>

KuzuClose ==
    /\ kuzu' = [kuzu_close(kuzu) EXCEPT !.call = <<"close">>]
    /\ UNCHANGED <<pc, pipeline_vars, neo4j, thread_mw, trace_mw>>

KuzuGetQueryLanguage ==
    /\ kuzu' = [kuzu_get_query_language(kuzu) EXCEPT !.call = <<"get_query_language">>]
    /\ UNCHANGED <<pc, pipeline_vars, neo4j, thread_mw, trace_mw>>

KuzuNext ==
    \/ KuzuConnect
    \/ KuzuExecute
    \/ KuzuCreateNodeTable
    \/ KuzuCreateRelationshipTable
    \/ KuzuDropTable
    \/ KuzuInsertNode
    \/ KuzuInsertRelationship
    \/ KuzuClose
    \/ KuzuGetQueryLanguage

KuzuSpec == KuzuInit /\ [][KuzuNext]_vars

(***************************************************************************)
(* Properties of the node pass.                                            *)
(***************************************************************************)
SystemFields == {"id", "_created_at", "_updated_at"}

\* the business part of a row: everything but the identity and the timestamps
business(row) == [key \in DOMAIN row \ SystemFields |-> row[key]]

\* the node types declared exactly once, by a declaration that yields rows
sole_declarations ==
    {i \in DOMAIN nodes :
        /\ ~nodes[i].embed_in_parent
        /\ \A j \in DOMAIN nodes : nodes[j].baml_class = nodes[i].baml_class => j = i}

\* the rows of the items of declaration i, in the order the node pass meets them
rows_met(i) ==
    LET items == items_of_node(nodes[i], model, 1)
    IN [k \in DOMAIN items |-> item_row(items[k], nodes[i], model, nodes, 0, clock)]

\* the stringified deduplication value of a row of declaration i
dedup_string(i, row) == PyStr(dedup_value_of(nodes[i], row))

has_dedup_value(i, row) == Truthy(dedup_value_of(nodes[i], row))

\* C1: after the node pass, the table of a node type holds at most one row per
\* non-empty stringified deduplication value, and that row carries the content
\* of the first item met with that value (later ones are discarded, not merged).
C1_FirstWins ==
    pc = "nodes_extracted" =>
        \A i \in sole_declarations :
            LET table == nodes_dict[nodes[i].baml_class]
                met == rows_met(i)
            IN /\ \A a, b \in DOMAIN table :
                     (/\ has_dedup_value(i, table[a])
                      /\ dedup_string(i, table[a]) = dedup_string(i, table[b]))
                     => a = b
               /\ \A k \in DOMAIN met :
                     has_dedup_value(i, met[k]) =>
                        LET first == CHOOSE f \in DOMAIN met :
                                        /\ dedup_string(i, met[f]) = dedup_string(i, met[k])
                                        /\ \A g \in 1..(f - 1) :
                                              dedup_string(i, met[g]) # dedup_string(i, met[k])
                        IN \E a \in DOMAIN table : business(table[a]) = business(met[first])

\* two items with different content and one non-empty deduplication value were met
C1_Witness ==
    /\ pc = "nodes_extracted"
    /\ \E i \in sole_declarations :
          LET met == rows_met(i)
          IN \E k, l \in DOMAIN met :
                /\ k < l
                /\ has_dedup_value(i, met[k])
                /\ dedup_string(i, met[k]) = dedup_string(i, met[l])
                /\ business(met[k]) # business(met[l])

(***************************************************************************)
(* Properties of the edge pass.                                            *)
(***************************************************************************)
\* the ids of the rows of the table of node type t
row_ids(table, t) ==
    IF t \in DOMAIN table THEN {table[t][a]["id"] : a \in DOMAIN table[t]} ELSE {}

rows_in(table) ==
    LET RECURSIVE count(_)
        count(ts) == IF ts = {} THEN 0
                     ELSE LET t == CHOOSE x \in ts : TRUE
                          IN Len(table[t]) + count(ts \ {t})
    IN count(DOMAIN table)

\* C2: every edge tuple returned by extraction has, as from-id and as to-id, the
\* id of a row present in the returned node table of its from-type and to-type.
C2_EdgesReferenceRows ==
    \A e \in DOMAIN relationships :
        /\ relationships[e][2] \in row_ids(nodes_dict, relationships[e][1])
        /\ relationships[e][4] \in row_ids(nodes_dict, relationships[e][3])

\* a first run that returned edges and discarded at least one duplicate item
C2_Witness ==
    /\ Len(runs) = 1
    /\ pc = "schema"
    /\ relationships # <<>>
    /\ rows_in(nodes_dict) < next_uuid

(***************************************************************************)
(* The Review/Opportunity/Person scenario.                                 *)
(***************************************************************************)
\* what a node declaration and a relation declaration say, without the
\* attributes deduction and preparation fill in
declared_node(n) ==
    <<n.baml_class, n.name_from, n.deduplication_key, n.embedded, n.embed_in_parent>>

declared_relation(r) == <<r.from_node, r.to_node, r.name>>

\* the schema in use was built from the declarations ns and rs
declared_as(ns, rs) ==
    /\ [i \in DOMAIN nodes |-> declared_node(nodes[i])]
          = [i \in DOMAIN ns |-> declared_node(ns[i])]
    /\ [i \in DOMAIN relations |-> declared_relation(relations[i])]
          = [i \in DOMAIN rs |-> declared_relation(rs[i])]

\* the first extraction of the scenario instance with the given people returned
scenario_extracted(people) ==
    /\ root_model_class = "Review"
    /\ declared_as(ScenarioNodes, ScenarioRelations)
    /\ model = Review("2024-01-01", Opportunity("Acme Deal"), people)
    /\ pc = "schema"
    /\ Len(runs) = 1

edges_named(name) ==
    {e \in DOMAIN relationships : relationships[e][5] = name}

\* C3: with people = [Alice, Alice] the scenario yields exactly 1 Person row and
\* exactly 1 HAS_PERSON edge pointing at it.
C3_OnePersonOneEdge ==
    scenario_extracted(<<Person("Alice"), Person("Alice")>>) =>
        /\ Len(nodes_dict["Person"]) = 1
        /\ Cardinality(edges_named("HAS_PERSON")) = 1
        /\ \A e \in edges_named("HAS_PERSON") :
              relationships[e][4] = nodes_dict["Person"][1]["id"]

\* what extraction returns for it: one Person row, and one HAS_PERSON tuple per
\* item of the people list, each pointing at that row
C3_Witness ==
    /\ scenario_extracted(<<Person("Alice"), Person("Alice")>>)
    /\ Len(nodes_dict["Person"]) = 1
    /\ Cardinality(edges_named("HAS_PERSON")) = 2
    /\ \A e \in edges_named("HAS_PERSON") :
          relationships[e][4] = nodes_dict["Person"][1]["id"]

\* C4: extracting Review(date, Opportunity("Acme Deal"), [Alice, Bob]) with the
\* deduced scenario schema yields 1 Review row, 1 Opportunity row, 2 Person
\* rows, 1 REVIEWS edge and 2 HAS_PERSON edges.
C4_ScenarioCounts ==
    scenario_extracted(<<Person("Alice"), Person("Bob")>>) =>
        /\ DOMAIN nodes_dict = {"Review", "Opportunity", "Person"}
        /\ Len(nodes_dict["Review"]) = 1
        /\ Len(nodes_dict["Opportunity"]) = 1
        /\ Len(nodes_dict["Person"]) = 2
        /\ Cardinality(edges_named("REVIEWS")) = 1
        /\ Cardinality(edges_named("HAS_PERSON")) = 2
        /\ Len(relationships) = 3

C4_Witness ==
    /\ scenario_extracted(<<Person("Alice"), Person("Bob")>>)
    /\ {nodes_dict["Person"][a]["_name"] : a \in DOMAIN nodes_dict["Person"]}
          = {Str("Alice"), Str("Bob")}
    /\ nodes_dict["Review"][1]["_name"] = Str("2024-01-01")

(***************************************************************************)
(* Relations without a plausible pair of paths.                            *)
(***************************************************************************)
\* p is a proper prefix of q, segment by segment
proper_prefix(p, q) == Len(p) < Len(q) /\ SubSeq(q, 1, Len(p)) = p

\* a (from-path, to-path) combination the filter has no reason to keep: the
\* from-path is not the root, neither path continues the other, and the two
\* do not start with the same segment
implausible(from_path, to_path) ==
    /\ from_path # <<>>
    /\ ~proper_prefix(from_path, to_path)
    /\ ~proper_prefix(to_path, from_path)
    /\ (to_path = <<>> \/ from_path[1] # to_path[1])

\* the paths of the first declaration of a node type, none if it has none
paths_of_type(cls) ==
    LET decls == {i \in DOMAIN nodes : nodes[i].baml_class = cls}
    IN IF decls = {} THEN {}
       ELSE Range(nodes[CHOOSE i \in decls : \A j \in decls : i <= j].field_paths)

no_plausible_pair(r) ==
    \A from_path \in paths_of_type(r.from_node), to_path \in paths_of_type(r.to_node) :
        implausible(from_path, to_path)

edges_of(r) ==
    {e \in DOMAIN relationships :
        /\ relationships[e][1] = r.from_node
        /\ relationships[e][3] = r.to_node
        /\ relationships[e][5] = r.name}

\* C5: a relation none of whose (from-path, to-path) combinations is plausible
\* is left with an empty pair list and a warning by deduction, extraction emits
\* no edge of it, and neither step raises.
C5_NoPlausiblePair ==
    pc # "declared" =>
        \A i \in DOMAIN relations :
            no_plausible_pair(relations[i]) =>
                /\ relations[i].field_paths = <<>>
                /\ \E w \in DOMAIN warnings :
                      /\ warnings[w].kind = "no_relationship_paths"
                      /\ warnings[w].name = relations[i].name
                      /\ warnings[w].from = relations[i].from_node
                      /\ warnings[w].to = relations[i].to_node
                /\ edges_of(relations[i]) = {}
                /\ pc = "schema" => raised = NoError
                /\ pc = "nodes_extracted" =>
                      edges_of_relation(relations[i], nodes, model, id_registry)
                         = [edges |-> <<>>, raised |-> FALSE]

\* an extraction returned with rows of both endpoint types of a relation whose
\* endpoint types both have paths, though no plausible pair
C5_Witness ==
    /\ pc = "schema"
    /\ Len(runs) = 1
    /\ \E i \in DOMAIN relations :
          /\ no_plausible_pair(relations[i])
          /\ paths_of_type(relations[i].from_node) # {}
          /\ paths_of_type(relations[i].to_node) # {}
          /\ nodes_dict[relations[i].from_node] # <<>>
          /\ nodes_dict[relations[i].to_node] # <<>>

(***************************************************************************)
(* Properties of schema deduction.                                         *)
(***************************************************************************)
\* the classes that are the resolved type of a field of class cls
field_types(cls) ==
    {model_fields(cls)[j].type : j \in DOMAIN model_fields(cls)} \cap ModelClasses

\* the classes that are the resolved type of a field reachable from root
reachable_field_types(root) ==
    LET RECURSIVE grow(_)
        grow(seen) ==
            LET more == seen \cup UNION {field_types(c) : c \in seen \cup {root}}
            IN IF more = seen THEN seen ELSE grow(more)
    IN grow({})

\* C6: a declaration of the root type itself gets the path list [""] and is not
\* plural there, also when the root type is the type of a field reachable from
\* the root.
C6_RootPath ==
    pc # "declared" =>
        \A i \in DOMAIN nodes :
            nodes[i].baml_class = root_model_class =>
                /\ nodes[i].field_paths = << <<>> >>
                /\ DOMAIN nodes[i].is_list_at_paths = { <<>> }
                /\ ~nodes[i].is_list_at_paths[<<>>]
                /\ pc \in {"prepared", "nodes_extracted"} =>
                      nodes[i].field_path_ = <<>> /\ ~nodes[i].is_list_

\* a deduced declaration of a root type that refers to itself
C6_Witness ==
    /\ pc = "schema"
    /\ root_model_class \in reachable_field_types(root_model_class)
    /\ \E i \in DOMAIN nodes : nodes[i].baml_class = root_model_class

\* C7: a declaration of a type other than the root that is not the resolved
\* type of any field reachable from the root gets an empty path list, and the
\* warning list holds a 'no field paths found' warning naming the type.
C7_UnreachableType ==
    pc # "declared" =>
        \A i \in DOMAIN nodes :
            (/\ nodes[i].baml_class # root_model_class
             /\ nodes[i].baml_class \notin reachable_field_types(root_model_class))
            => /\ nodes[i].field_paths = <<>>
               /\ \E w \in DOMAIN warnings :
                     /\ warnings[w].kind = "no_field_paths"
                     /\ warnings[w].cls = nodes[i].baml_class

\* a deduced schema that declares an unreachable type next to a reachable one
C7_Witness ==
    /\ pc = "schema"
    /\ \E i, j \in DOMAIN nodes :
          /\ nodes[i].baml_class # root_model_class
          /\ nodes[i].baml_class \notin reachable_field_types(root_model_class)
          /\ nodes[j].baml_class \in reachable_field_types(root_model_class)
          /\ nodes[j].field_paths # <<>>

\* the four coherence conditions, read off the deduced schema
endpoint_undeclared(cls) ==
    /\ \E i \in DOMAIN relations : cls \in {relations[i].from_node, relations[i].to_node}
    /\ \A i \in DOMAIN nodes : nodes[i].baml_class # cls

pair_covered_twice(from, to) ==
    \E i, j \in DOMAIN relations :
        /\ i # j
        /\ relations[i].from_node = from /\ relations[i].to_node = to
        /\ relations[j].from_node = from /\ relations[j].to_node = to

node_without_paths(cls) ==
    \E i \in DOMAIN nodes :
        /\ nodes[i].baml_class = cls
        /\ cls # root_model_class
        /\ nodes[i].field_paths = <<>>

relation_without_pairs(name, from, to) ==
    \E i \in DOMAIN relations :
        /\ relations[i].name = name
        /\ relations[i].from_node = from /\ relations[i].to_node = to
        /\ relations[i].field_paths = <<>>

\* the condition a warning reports
reported(w) ==
    CASE w.kind = "missing_node_config" -> endpoint_undeclared(w.cls)
      [] w.kind = "multiple_relationships" -> pair_covered_twice(w.from, w.to)
      [] w.kind = "no_field_paths" -> node_without_paths(w.cls)
      [] w.kind = "no_relationship_paths" -> relation_without_pairs(w.name, w.from, w.to)
      [] OTHER -> FALSE

warned(kind, fields) ==
    \E w \in DOMAIN warnings :
        /\ warnings[w].kind = kind
        /\ \A f \in DOMAIN fields : warnings[w][f] = fields[f]

\* C8: deduction does not raise on a coherence problem; the warning list holds
\* a warning for every undeclared relation endpoint, every pair of types
\* covered by several relations, every non-root declaration without paths and
\* every relation without pairs, and every warning in it reports one of these.
C8_CoherenceWarnings ==
    pc # "declared" =>
        /\ pc = "schema" /\ runs = <<>> => raised = NoError
        /\ \A cls \in ModelClasses :
              /\ endpoint_undeclared(cls) => warned("missing_node_config", [cls |-> cls])
              /\ node_without_paths(cls) => warned("no_field_paths", [cls |-> cls])
        /\ \A from, to \in ModelClasses :
              pair_covered_twice(from, to) =>
                 warned("multiple_relationships", [from |-> from, to |-> to])
        /\ \A i \in DOMAIN relations :
              relations[i].field_paths = <<>> =>
                 warned("no_relationship_paths",
                        [name |-> relations[i].name, from |-> relations[i].from_node,
                         to |-> relations[i].to_node])
        /\ \A w \in DOMAIN warnings : reported(warnings[w])

\* a deduced schema with warnings of all four kinds
C8_Witness ==
    /\ pc = "schema"
    /\ {warnings[w].kind : w \in DOMAIN warnings}
          = {"missing_node_config", "multiple_relationships", "no_field_paths",
             "no_relationship_paths"}

(***************************************************************************)
(* Properties across runs and across orders of the declarations.           *)
(***************************************************************************)
table_ids(table) == UNION {row_ids(table, t) : t \in DOMAIN table}

\* C9: two extractions of one instance with one schema return node tables with
\* the same node types, as many rows per type and the same business values row
\* for row, and no identity of the second run is an identity of the first.
C9_SameContentFreshIds ==
    Len(runs) >= 2 =>
        LET first == runs[1].nodes_dict
            second == runs[2].nodes_dict
        IN /\ DOMAIN first = DOMAIN second
           /\ \A t \in DOMAIN first :
                 /\ Len(first[t]) = Len(second[t])
                 /\ \A a \in DOMAIN first[t] :
                       business(first[t][a]) = business(second[t][a])
           /\ table_ids(first) \cap table_ids(second) = {}

\* two runs returned tables with rows of several types
C9_Witness ==
    /\ Len(runs) = 2
    /\ Cardinality({t \in DOMAIN runs[2].nodes_dict : runs[2].nodes_dict[t] # <<>>}) >= 2
    /\ Cardinality(table_ids(runs[1].nodes_dict)) >= 3

\* C10: the excluded-field set of a node declaration depends on the
\* declarations only, not on the order they are listed in: a schema deduced
\* from the same declarations in another order gives each the same set.
C10_ExcludedOrderFree ==
    pc = "reordered" =>
        /\ {declared_node(reordered[j]) : j \in DOMAIN reordered}
              = {declared_node(nodes[i]) : i \in DOMAIN nodes}
        /\ \A i \in DOMAIN nodes, j \in DOMAIN reordered :
              declared_node(nodes[i]) = declared_node(reordered[j])
                 => nodes[i].excluded_fields = reordered[j].excluded_fields
        /\ nodes = deduced_nodes(nodes, relations, root_model_class)

\* a reordered schema in which a declaration excludes several fields
C10_Witness ==
    /\ pc = "reordered"
    /\ [j \in DOMAIN reordered |-> declared_node(reordered[j])]
          # [i \in DOMAIN nodes |-> declared_node(nodes[i])]
    /\ \E i \in DOMAIN nodes : Cardinality(nodes[i].excluded_fields) >= 2

(***************************************************************************)
(* Properties of the loader.                                               *)
(***************************************************************************)
\* what a reader of the database sees: the tables, their columns or endpoints,
\* and how many rows each holds
observable(db) ==
    [t \in DOMAIN db |->
        IF db[t].kind = "node"
        THEN [kind |-> "node", columns |-> db[t].fields, row_count |-> Len(db[t].rows)]
        ELSE [kind |-> "rel", from |-> db[t].from, to |-> db[t].to,
              row_count |-> Len(db[t].rows)]]

\* C11: two loads in succession on one connection, with the same schema, node
\* table and edge list, leave the same tables with the same columns and the
\* same number of rows and edges per table after the second as after the first.
C11_ReloadSameState ==
    Len(runs) >= 2 => observable(runs[2].db) = observable(runs[1].db)

\* two complete loads that filled node tables and a relationship table
C11_Witness ==
    /\ Len(runs) = 2
    /\ ~runs[1].raised /\ ~runs[2].raised
    /\ \E t \in DOMAIN runs[2].db :
          runs[2].db[t].kind = "node" /\ Len(runs[2].db[t].rows) >= 2
    /\ \E t \in DOMAIN runs[2].db :
          runs[2].db[t].kind = "rel" /\ Len(runs[2].db[t].rows) >= 1

rejected_statements == {k \in DOMAIN backend.log : ~backend.log[k].ok}

\* C12: a statement the backend rejects (a table drop, a node table or
\* relationship table creation, a node insert, an edge insert) never makes the
\* load raise: whatever was rejected, no exception leaves the load.
C12_FailuresCaught ==
    rejected_statements # {} => raised = NoError

\* a load that ended in an exception at a rejected table creation, with rows
\* to insert and none inserted
C12_Witness ==
    /\ pc = "loader_failed"
    /\ backend.log[Len(backend.log)].stmt.op \in {"CREATE NODE TABLE", "CREATE REL TABLE"}
    /\ ~backend.log[Len(backend.log)].ok
    /\ \E t \in DOMAIN nodes_dict : nodes_dict[t] # <<>>
    /\ \A k \in DOMAIN backend.log : backend.log[k].stmt.op # "CREATE"

inserts_of(node_type, node_data) ==
    {k \in DOMAIN backend.log :
        /\ backend.log[k].stmt.op = "CREATE"
        /\ backend.log[k].stmt.table = node_type
        /\ backend.log[k].stmt.data = cleaned_row(node_data)}

\* C13: after load_graph_data, no insert was issued for a row whose id is
\* null, an insert was issued for every other row of the node table (the rows
\* after a skipped one included), no insert carries a null id and no row of a
\* node table of the database has one.
C13_NullKeySkipped ==
    pc = "loader_done" =>
        /\ \A t \in DOMAIN nodes_dict : \A a \in DOMAIN nodes_dict[t] :
              IF nodes_dict[t][a]["id"] = None
              THEN inserts_of(t, nodes_dict[t][a]) = {}
              ELSE /\ inserts_of(t, nodes_dict[t][a]) # {}
                   /\ (\E k \in inserts_of(t, nodes_dict[t][a]) : backend.log[k].ok)
                         => rows_with_key(backend.db, t,
                                          cleaned_value(nodes_dict[t][a]["id"])) # {}
        /\ \A k \in DOMAIN backend.log :
              backend.log[k].stmt.op = "CREATE" =>
                 /\ "id" \in DOMAIN backend.log[k].stmt.data
                 /\ backend.log[k].stmt.data["id"] # NullLiteral
        /\ \A t \in DOMAIN backend.db :
              backend.db[t].kind = "node" =>
                 \A a \in DOMAIN backend.db[t].rows :
                    backend.db[t].rows[a]["id"] # NullLiteral

\* a load of a node table whose first row of a type has a null id and whose
\* second row was inserted
C13_Witness ==
    /\ pc = "loader_done"
    /\ \E t \in DOMAIN nodes_dict :
          /\ Len(nodes_dict[t]) >= 2
          /\ nodes_dict[t][1]["id"] = None
          /\ nodes_dict[t][2]["id"] # None
          /\ t \in DOMAIN backend.db
          /\ Len(backend.db[t].rows) = 1
          /\ backend.db[t].rows[1] = cleaned_row(nodes_dict[t][2])

(***************************************************************************)
(* Items without a deduplication value.                                    *)
(***************************************************************************)
\* the rows of the table of declaration i, and the items met for it, that
\* have no deduplication value
no_dedup_rows(i) ==
    {a \in DOMAIN nodes_dict[nodes[i].baml_class] :
        ~has_dedup_value(i, nodes_dict[nodes[i].baml_class][a])}

no_dedup_met(i) == {k \in DOMAIN rows_met(i) : ~has_dedup_value(i, rows_met(i)[k])}

\* the relations into the type of declaration i whose source is the root and
\* resolves to a row in the edge pass
relations_into(i) ==
    {j \in DOMAIN relations :
        /\ relations[j].to_node = nodes[i].baml_class
        /\ relations[j].from_node \in configured_classes(nodes)
        /\ ~node_info_of(nodes, relations[j].from_node).embed_in_parent
        /\ path_truthy(relations[j].to_field_path_)
        /\ ~path_truthy(relations[j].from_field_path_)
        /\ lookup_id(id_registry[relations[j].from_node],
                     edge_dedup_value(node_info_of(nodes, relations[j].from_node),
                                      dump_or_self(model), relations[j].from_node)) # None}

\* the rows of the target items of relation j, as the node pass builds them
\* for declaration i
target_rows(i, j) ==
    LET to_data == get_field_by_path(model, relations[j].to_field_path_)
        to_items == IF to_data = None THEN <<>>
                    ELSE IF to_data.k = "list" THEN to_data.items ELSE <<to_data>>
    IN {item_row(to_items[k], nodes[i], model, nodes, 0, clock) :
           k \in {l \in DOMAIN to_items : to_items[l] # None}}

\* the edges of relation j that end at a row with the content of row
edges_to_row(i, j, row) ==
    {e \in DOMAIN relationships :
        /\ relationships[e][5] = relations[j].name
        /\ \E a \in no_dedup_rows(i) :
              /\ business(nodes_dict[nodes[i].baml_class][a]) = business(row)
              /\ relationships[e][4] = nodes_dict[nodes[i].baml_class][a]["id"]}

\* C14: an item without a deduplication value always becomes a row of its own,
\* never merged with another, its id is registered under itself, and a
\* relation that has the item as a target has an edge to its row.
C14_NoDedupValueKept ==
    pc = "extracted" =>
        \A i \in sole_declarations :
            LET table == nodes_dict[nodes[i].baml_class]
                registry == id_registry[nodes[i].baml_class]
            IN /\ Cardinality(no_dedup_rows(i)) = Cardinality(no_dedup_met(i))
               /\ \A k \in no_dedup_met(i) :
                     \E a \in no_dedup_rows(i) : business(table[a]) = business(rows_met(i)[k])
               /\ \A a \in no_dedup_rows(i) :
                     /\ table[a]["id"] \in DOMAIN registry
                     /\ registry[table[a]["id"]] = table[a]["id"]
               /\ \A j \in relations_into(i) : \A row \in target_rows(i, j) :
                     ~has_dedup_value(i, row) => edges_to_row(i, j, row) # {}

\* a row kept for an item whose declared deduplication key is null, the item
\* a target of a relation from the root, and no edge of the relation to a row
\* with its content
C14_Witness ==
    /\ pc = "extracted"
    /\ \E i \in sole_declarations :
          /\ Truthy(nodes[i].deduplication_key)
          /\ \E j \in relations_into(i) : \E row \in target_rows(i, j) :
                /\ dedup_value_of(nodes[i], row) = None
                /\ \E a \in no_dedup_rows(i) :
                      business(nodes_dict[nodes[i].baml_class][a]) = business(row)
                /\ edges_to_row(i, j, row) = {}

(***************************************************************************)
(* Properties of the order of the stages of create_graph.                  *)
(***************************************************************************)
\* C15: no statement is executed on the connection before the instance is
\* extracted: whenever a statement of this run has been executed, the node
\* table and the edge list of this run have been returned.
C15_ExtractBeforeWrite ==
    backend.log # <<>> => pc \in {"extracted", "schema"}

\* the tables of the first run dropped and created again, empty, before the
\* second extraction has started
C15_Witness ==
    /\ pc = "tables_created"
    /\ Len(runs) = 1
    /\ \E t \in DOMAIN runs[1].db : runs[1].db[t].rows # <<>>
    /\ \E k \in DOMAIN backend.log : backend.log[k].ok /\ backend.log[k].stmt.op = "DROP TABLE"
    /\ \A t \in DOMAIN backend.db : backend.db[t].rows = <<>>

(***************************************************************************)
(* Properties of the placeholder backend.                                  *)
(***************************************************************************)
\* C16: every call of a method of the Neo4j backend other than
\* get_query_language raised NotImplementedError and returned nothing; a call
\* of get_query_language raised nothing and returned "Cypher".
C16_PlaceholderFails ==
    \A c \in DOMAIN neo4j.calls :
        IF neo4j.calls[c].method = "get_query_language"
        THEN neo4j.calls[c].raised = NoError /\ neo4j.calls[c].returned = Str("Cypher")
        ELSE /\ neo4j.calls[c].raised = "NotImplementedError"
             /\ neo4j.calls[c].returned = NoValue

\* C16 as stated: every call of a method of the Neo4j backend, whichever the
\* method, raised NotImplementedError and returned nothing.
C16_EveryMethodFails ==
    \A c \in DOMAIN neo4j.calls :
        /\ neo4j.calls[c].raised = "NotImplementedError"
        /\ neo4j.calls[c].returned = NoValue

\* get_query_language called, and two other methods
C16_Witness ==
    /\ \E c \in DOMAIN neo4j.calls : neo4j.calls[c].method = "get_query_language"
    /\ Cardinality({neo4j.calls[c].method : c \in DOMAIN neo4j.calls}) = MaxCalls

(***************************************************************************)
(* Properties of the thread workspaces.                                    *)
(***************************************************************************)
\* the relative paths written through the workspace path of thread t, among
\* the first n writes
written_by(t, n) ==
    {thread_mw.written[w].relative_path :
        w \in {v \in 1..n : thread_mw.written[v].thread_id = t}}

\* C17: the workspace paths given to two different thread ids differ, and
\* list_workspace_files(t) returned the files written through the workspace
\* path of t, each once, and no file written through that of another thread.
C17_ThreadsIsolated ==
    /\ \A t, u \in DOMAIN thread_mw.issued :
          t # u => thread_mw.issued[t].workspace_path # thread_mw.issued[u].workspace_path
    /\ thread_mw.listed # None =>
          LET files == thread_mw.listed.files
          IN /\ {files[f].relative_path : f \in DOMAIN files}
                   = written_by(thread_mw.listed.thread_id, thread_mw.listed.after)
             /\ \A f, g \in DOMAIN files :
                   files[f].relative_path = files[g].relative_path => f = g

\* two threads wrote a file of the same name, and the listing of one of them
\* returned one file
C17_Witness ==
    /\ thread_mw.listed # None
    /\ Len(thread_mw.listed.files) = 1
    /\ thread_mw.listed.after = MaxWrites
    /\ \E v, w \in DOMAIN thread_mw.written :
          /\ thread_mw.written[v].thread_id # thread_mw.written[w].thread_id
          /\ thread_mw.written[v].relative_path = thread_mw.written[w].relative_path

(***************************************************************************)
(* Properties of the tool call trace.                                      *)
(***************************************************************************)
recorded(record) ==
    [name |-> record.name, arguments |-> record.arguments,
     result |-> record.result, error |-> record.error]

\* C18: tool_calls holds one record per call that ended, in the order the
\* calls ended, each with the name and arguments of its call and the result
\* or the error of that call, and current_call is None while no call is in
\* progress.
C18_OneRecordPerCall ==
    /\ Len(trace_mw.mw.tool_calls) = Len(trace_mw.ended)
    /\ \A c \in DOMAIN trace_mw.mw.tool_calls :
          c \in DOMAIN trace_mw.ended
             => recorded(trace_mw.mw.tool_calls[c]) = trace_mw.ended[c]
    /\ awaiting = {} => trace_mw.mw.current_call = None

\* two asynchronous calls that overlapped have ended and tool_calls holds one
\* record, with the name of the second call and the result of the first
C18_Witness ==
    /\ Len(trace_mw.calls) = 2
    /\ awaiting = {}
    /\ Len(trace_mw.ended) = 2
    /\ Len(trace_mw.mw.tool_calls) = 1
    /\ trace_mw.calls[1].request # trace_mw.calls[2].request
    /\ trace_mw.mw.tool_calls[1].name = extract_tool_info(trace_mw.calls[2].request)[1]
    /\ trace_mw.mw.tool_calls[1].result = extract_result(ToolResults[1])

(***************************************************************************)
(* Properties of the kept pairs and of the excluded fields.                *)
(***************************************************************************)
\* the rule for keeping a pair: the from-path is the root, or one path
\* continues the other (the root is continued by every path), or both start
\* with the same segment
kept_by_rule(from_path, to_path) ==
    \/ from_path = <<>>
    \/ proper_prefix(from_path, to_path)
    \/ proper_prefix(to_path, from_path)
    \/ (from_path # <<>> /\ to_path # <<>> /\ from_path[1] = to_path[1])

\* C19: a deduced relation holds a (from-path, to-path) combination of the
\* paths of its endpoint types if and only if the from-path is the root, or
\* one of the two paths is an ancestor of the other (the root to-path being an
\* ancestor of every path), or the two start with the same segment.
C19_PairKeptIff ==
    pc # "declared" =>
        \A i \in DOMAIN relations :
            \A from_path \in paths_of_type(relations[i].from_node),
               to_path \in paths_of_type(relations[i].to_node) :
                (<<from_path, to_path>> \in Range(relations[i].field_paths))
                   <=> kept_by_rule(from_path, to_path)

\* a deduced relation from a nested type to the root type, left without pairs
C19_Witness ==
    /\ pc = "schema"
    /\ \E i \in DOMAIN relations :
          /\ relations[i].to_node = root_model_class
          /\ paths_of_type(relations[i].to_node) = {<<>>}
          /\ \E from_path \in paths_of_type(relations[i].from_node) : from_path # <<>>
          /\ relations[i].field_paths = <<>>

\* the kept pairs of the relations that leave the class of declaration i
kept_pairs_from(i) ==
    UNION {Range(relations[k].field_paths) :
              k \in {l \in DOMAIN relations : relations[l].from_node = nodes[i].baml_class}}

\* the fields named by the kept pairs whose to-path continues the from-path:
\* the segment of the to-path that follows the from-path
fields_below(i) ==
    {pair[2][Len(pair[1]) + 1] :
        pair \in {q \in kept_pairs_from(i) : proper_prefix(q[1], q[2])}}

embedded_keys(i) == {nodes[i].embedded[k][1] : k \in DOMAIN nodes[i].embedded}

no_legacy_embedding == \A j \in DOMAIN nodes : ~nodes[j].embed_in_parent

\* C20: without embed_in_parent declarations, the excluded fields of a node
\* declaration are exactly the keys of its embedded pairs and, for every kept
\* pair of a relation leaving its type whose to-path continues the from-path,
\* the segment of the to-path that follows the from-path; a kept pair whose
\* to-path does not continue the from-path excludes nothing.
C20_ExcludedExactly ==
    (pc # "declared" /\ no_legacy_embedding) =>
        \A i \in DOMAIN nodes :
            nodes[i].excluded_fields = fields_below(i) \cup embedded_keys(i)

\* C20 as stated: the same, and every kept pair of a relation leaving the
\* type names a field, its to-path continuing its from-path.
C20_EveryPairContributes ==
    (pc # "declared" /\ no_legacy_embedding) =>
        \A i \in DOMAIN nodes :
            /\ nodes[i].excluded_fields = fields_below(i) \cup embedded_keys(i)
            /\ \A pair \in kept_pairs_from(i) : proper_prefix(pair[1], pair[2])

\* a deduced schema in which a declaration not at the root excludes a field
\* for a kept pair, and a kept pair of another declaration excludes nothing
C20_Witness ==
    /\ pc = "schema"
    /\ no_legacy_embedding
    /\ \E i \in DOMAIN nodes :
          /\ nodes[i].baml_class # root_model_class
          /\ nodes[i].embedded = <<>>
          /\ nodes[i].excluded_fields # {}
    /\ \E i \in DOMAIN nodes :
          \E pair \in kept_pairs_from(i) : ~proper_prefix(pair[1], pair[2])

(***************************************************************************)
(* Properties of the pairs the edge pass works on.                         *)
(***************************************************************************)
\* the tuples the edge pass appends for relation i when it works on the k-th
\* kept pair of the relation
edges_for_pair(i, k) ==
    edges_of_relation([relations[i] EXCEPT
                          !.from_field_path_ = relations[i].field_paths[k][1],
                          !.to_field_path_ = relations[i].field_paths[k][2]],
                      nodes, model, id_registry).edges

\* C21: the edge pass works on every kept pair of every relation: for each
\* kept pair whose source resolves to a registered node, and each target item
\* at the to-path that is a registered node, the edge list holds the tuple
\* with the relation's name.
C21_EveryPairProcessed ==
    pc = "extracted" =>
        \A i \in DOMAIN relations : \A k \in DOMAIN relations[i].field_paths :
            Range(edges_for_pair(i, k)) \subseteq Range(relationships)

\* a relation with more than one kept pair, a later pair joining two
\* registered nodes, and no tuple for them in the edge list
C21_Witness ==
    /\ pc = "extracted"
    /\ \E i \in DOMAIN relations : \E k \in DOMAIN relations[i].field_paths :
          /\ k > 1
          /\ Range(edges_for_pair(i, 1)) # {}
          /\ \E e \in Range(edges_for_pair(i, k)) :
                /\ e \notin Range(relationships)
                /\ \E a \in DOMAIN nodes_dict[e[3]] : nodes_dict[e[3]][a]["id"] = e[4]

(***************************************************************************)
(* Properties of the embedded fields of a row.                             *)
(***************************************************************************)
\* the declarations with a table of their own and an `embedded` list
embedding_declarations ==
    {i \in DOMAIN nodes : ~nodes[i].embed_in_parent /\ nodes[i].embedded # <<>>}

\* the keys `{field_name}_{name}` the embedded pairs of declaration i can add
prefixed_keys(i) ==
    UNION {{nodes[i].embedded[e][1] \o "_" \o model_fields(nodes[i].embedded[e][2])[j].name :
               j \in DOMAIN model_fields(nodes[i].embedded[e][2])} :
           e \in DOMAIN nodes[i].embedded}

\* the entries an item contributes from its own embedded sub-objects
own_embedded(i, item) ==
    LET RECURSIVE merged(_)
        merged(e) ==
            IF e = 0 THEN <<>>
            ELSE LET field_name == nodes[i].embedded[e][1]
                     sub == IF field_name \in DOMAIN item.f THEN item.f[field_name] ELSE None
                 IN IF sub.k \in {"obj", "dict"}
                    THEN [key \in {field_name \o "_" \o a : a \in DOMAIN sub.f} |->
                             model_dump(sub.f[CHOOSE a \in DOMAIN sub.f :
                                                 field_name \o "_" \o a = key])]
                         @@ merged(e - 1)
                    ELSE merged(e - 1)
    IN merged(Len(nodes[i].embedded))

\* row holds the fields of item that are its own and not excluded
row_of_item(i, row, item) ==
    \A key \in DOMAIN item.f \ nodes[i].excluded_fields :
        key \in DOMAIN row /\ row[key] = model_dump(item.f[key])

\* C22: the values a row carries under the prefix of an embedded field are
\* those of the embedded sub-object of the item the row was built from, at
\* every path of the node type and for every element of a list.
C22_OwnEmbeddedValues ==
    pc = "extracted" =>
        \A i \in embedding_declarations :
            LET table == nodes_dict[nodes[i].baml_class]
                items == items_of_node(nodes[i], model, 1)
            IN \A a \in DOMAIN table : \E k \in DOMAIN items :
                  /\ row_of_item(i, table[a], items[k])
                  /\ [key \in DOMAIN table[a] \cap prefixed_keys(i) |-> table[a][key]]
                        = own_embedded(i, items[k])

\* a row built from an item at a second path of its type, carrying embedded
\* values although no item it can come from has that embedded sub-object
C22_Witness ==
    /\ pc = "extracted"
    /\ \E i \in embedding_declarations :
          LET table == nodes_dict[nodes[i].baml_class]
              items == items_of_node(nodes[i], model, 1)
          IN /\ Len(nodes[i].field_paths) > 1
             /\ \E a \in DOMAIN table :
                   /\ DOMAIN table[a] \cap prefixed_keys(i) # {}
                   /\ \E k \in DOMAIN items : row_of_item(i, table[a], items[k])
                   /\ \A k \in DOMAIN items :
                         row_of_item(i, table[a], items[k])
                            => own_embedded(i, items[k]) = <<>>

(***************************************************************************)
(* The deduplication value in the node pass and in the edge pass.          *)
(***************************************************************************)
\* the value the edge pass computes for an item of declaration i
edge_value(i, item) == edge_dedup_value(nodes[i], dump_or_self(item), nodes[i].baml_class)

\* C23: for every item the node pass registered under a deduplication value,
\* the edge pass computes the same stringified value, and the lookup of its
\* identity succeeds, whatever field the deduplication key names.
C23_SameDedupValue ==
    pc = "extracted" =>
        \A i \in sole_declarations :
            LET items == items_of_node(nodes[i], model, 1)
            IN \A k \in DOMAIN items :
                  has_dedup_value(i, rows_met(i)[k]) =>
                     /\ Truthy(edge_value(i, items[k]))
                     /\ PyStr(edge_value(i, items[k])) = dedup_string(i, rows_met(i)[k])
                     /\ lookup_id(id_registry[nodes[i].baml_class],
                                  edge_value(i, items[k])) # None

\* an item registered under its display name or under a prefixed embedded
\* field, the declared key, for which the edge pass reads no value
C23_Witness ==
    /\ pc = "extracted"
    /\ \E i \in sole_declarations :
          LET items == items_of_node(nodes[i], model, 1)
          IN /\ Truthy(nodes[i].deduplication_key)
             /\ \E k \in DOMAIN items :
                   /\ has_dedup_value(i, rows_met(i)[k])
                   /\ dedup_string(i, rows_met(i)[k])
                         \in DOMAIN id_registry[nodes[i].baml_class]
                   /\ edge_value(i, items[k]) = None

(***************************************************************************)
(* The occurrences of a type in the tree of the root type.                 *)
(***************************************************************************)
\* every field met when the tree of cls is walked from path, a type not
\* being entered again below itself: [path, type]
RECURSIVE tree_fields(_, _, _)
tree_fields(cls, path, above) ==
    UNION {{[path |-> Append(path, model_fields(cls)[j].name),
             type |-> model_fields(cls)[j].type]}
           \cup (IF /\ annotation_is_explored(model_fields(cls)[j])
                    /\ model_fields(cls)[j].type \notin above
                 THEN tree_fields(model_fields(cls)[j].type,
                                  Append(path, model_fields(cls)[j].name),
                                  above \cup {model_fields(cls)[j].type})
                 ELSE {}) :
           j \in DOMAIN model_fields(cls)}

\* the paths at which cls occurs in the tree of the root type
occurrences(cls) ==
    {f.path : f \in {g \in tree_fields(root_model_class, <<>>, {root_model_class}) :
                        g.type = cls}}

\* C24: the deduced path list of a node declaration holds every path at which
\* its type occurs in the tree of the root type, also below a second
\* occurrence of a type that was met before.
C24_EveryOccurrence ==
    pc = "schema" =>
        \A i \in DOMAIN nodes :
            ~is_root_declaration(nodes[i], root_model_class)
               => occurrences(nodes[i].baml_class) \subseteq Range(nodes[i].field_paths)

\* a type with a field of a node type, reached through two fields of the
\* root, and the path list of the node holding the path below the first only
C24_Witness ==
    /\ pc = "schema"
    /\ \E i \in DOMAIN nodes : \E a, b \in occurrences(nodes[i].baml_class) :
          /\ Len(a) = 2 /\ Len(b) = 2
          /\ a[1] # b[1] /\ a[2] = b[2]
          /\ a \in Range(nodes[i].field_paths)
          /\ b \notin Range(nodes[i].field_paths)

(***************************************************************************)
(* Properties of the field map.                                            *)
(***************************************************************************)
\* C25: the field map is built for every root type, also one that refers to
\* itself or to a type that refers back to it: it holds the root and every
\* reachable structured type, each expanded once, and every field of each of
\* them is recorded with its type, also a field whose type was visited
\* before.
C25_ExpandedOnce ==
    pc = "schema" =>
        /\ {model_field_map[a].cls : a \in DOMAIN model_field_map}
              = {root_model_class} \cup reachable_field_types(root_model_class)
        /\ \A a, b \in DOMAIN model_field_map :
              model_field_map[a].cls = model_field_map[b].cls => a = b
        /\ \A a \in DOMAIN model_field_map :
              LET flds == model_fields(model_field_map[a].cls)
                  entries == model_field_map[a].fields
              IN /\ Len(entries) = Len(flds)
                 /\ \A j \in DOMAIN flds :
                       /\ entries[j].name = flds[j].name
                       /\ entries[j].type = flds[j].type
                       /\ entries[j].path[Len(entries[j].path)] = flds[j].name

\* the map of a root type with a field whose type has a field of the root
\* type, and a type that is the type of several fields
C25_Witness ==
    /\ pc = "schema"
    /\ \E a \in DOMAIN model_field_map : \E e \in DOMAIN model_field_map[a].fields :
          /\ model_field_map[a].cls # root_model_class
          /\ model_field_map[a].fields[e].type = root_model_class
    /\ \E a \in DOMAIN model_field_map : \E e, f \in DOMAIN model_field_map[a].fields :
          /\ e # f
          /\ model_field_map[a].fields[e].type = model_field_map[a].fields[f].type
          /\ model_field_map[a].fields[e].type \in ModelClasses

(***************************************************************************)
(* Properties of the order of the statements of a load.                    *)
(***************************************************************************)
\* the step of a load a logged statement belongs to
step_of(stmt) ==
    CASE stmt.op = "DROP TABLE" ->
            IF \E i \in DOMAIN relations : relations[i].name = stmt.table THEN 1 ELSE 2
      [] stmt.op = "CREATE NODE TABLE" -> 3
      [] stmt.op = "CREATE REL TABLE" -> 4
      [] stmt.op = "CREATE" -> 5
      [] stmt.op = "MATCH CREATE" -> 6

\* the positions of the log with a statement of kind op on table t
logged(op, t) ==
    {k \in DOMAIN backend.log : backend.log[k].stmt.op = op /\ backend.log[k].stmt.table = t}

\* C26: the statements of a load reach the connection in the order drops of
\* relationship tables, drops of node tables, creations of node tables,
\* creations of relationship tables, node inserts, edge inserts; a table name
\* is dropped successfully and created at most once, no table is created for
\* a name declared only as embed_in_parent, every creation follows a drop of
\* the same name and every insert follows the creation of its table.
C26_StatementOrder ==
    LET log == backend.log
    IN /\ \A j, k \in DOMAIN log : j < k => step_of(log[j].stmt) <= step_of(log[k].stmt)
       /\ \A j, k \in DOMAIN log :
             (/\ log[j].stmt.op = "DROP TABLE" /\ log[k].stmt.op = "DROP TABLE"
              /\ log[j].stmt.table = log[k].stmt.table
              /\ log[j].ok /\ log[k].ok) => j = k
       /\ \A j, k \in DOMAIN log :
             (/\ log[j].stmt.op = "CREATE NODE TABLE" /\ log[k].stmt.op = "CREATE NODE TABLE"
              /\ log[j].stmt.table = log[k].stmt.table) => j = k
       /\ \A k \in DOMAIN log :
             log[k].stmt.op = "CREATE NODE TABLE" =>
                \E i \in DOMAIN nodes :
                   nodes[i].baml_class = log[k].stmt.table /\ ~nodes[i].embed_in_parent
       /\ \A k \in DOMAIN log :
             log[k].stmt.op \in {"CREATE NODE TABLE", "CREATE REL TABLE"} =>
                \E j \in logged("DROP TABLE", log[k].stmt.table) : j < k
       /\ \A k \in DOMAIN log :
             /\ log[k].stmt.op = "CREATE" =>
                   \E j \in logged("CREATE NODE TABLE", log[k].stmt.table) :
                      j < k /\ log[j].ok
             /\ log[k].stmt.op = "MATCH CREATE" =>
                   \E j \in logged("CREATE REL TABLE", log[k].stmt.table) :
                      j < k /\ log[j].ok

\* the log of a second load with statements of all six steps, the drops of
\* the tables of the first load accepted, and a declaration embedded in its
\* parent
C26_Witness ==
    /\ pc = "schema"
    /\ Len(runs) = 2
    /\ \A n \in 1..6 : \E k \in DOMAIN backend.log : step_of(backend.log[k].stmt) = n
    /\ \E k \in DOMAIN backend.log :
          backend.log[k].stmt.op = "DROP TABLE" /\ backend.log[k].ok
    /\ \E i \in DOMAIN nodes : nodes[i].embed_in_parent

(***************************************************************************)
(* Declarations without a path.                                            *)
(***************************************************************************)
\* C27: a declaration of a type other than the root whose deduced path list
\* is empty yields no row: the table of its type stays empty, and the root
\* instance is no row of it.
C27_NoPathsNoRows ==
    pc \in {"nodes_extracted", "extracted"} =>
        \A i \in DOMAIN nodes :
            (nodes[i].baml_class # root_model_class /\ nodes[i].field_paths = <<>>)
               => nodes_dict[nodes[i].baml_class] = <<>>

\* a type that occurs nowhere below the root, and a row in its table with
\* the fields of the root instance
C27_Witness ==
    /\ pc = "extracted"
    /\ \E i \in DOMAIN nodes :
          /\ nodes[i].baml_class # root_model_class
          /\ nodes[i].field_paths = <<>>
          /\ ~nodes[i].embed_in_parent
          /\ Len(nodes_dict[nodes[i].baml_class]) = 1
          /\ \A key \in DOMAIN model.f \ nodes[i].excluded_fields :
                /\ key \in DOMAIN nodes_dict[nodes[i].baml_class][1]
                /\ nodes_dict[nodes[i].baml_class][1][key] = model_dump(model.f[key])

(***************************************************************************)
(* Paths that do not resolve to one object.                                *)
(***************************************************************************)
\* the relations whose from-path resolves to a list on the instance
relations_from_list ==
    {j \in DOMAIN relations :
        /\ path_truthy(relations[j].from_field_path_)
        /\ get_field_by_path(model, relations[j].from_field_path_).k = "list"}

\* C28: extraction returns for every instance and every deduced schema: no
\* exception leaves the edge pass, also when the from-path of a relation
\* resolves to a list, and the edge list is then returned.
C28_ExtractionReturns ==
    /\ raised # "AttributeError"
    /\ (pc = "nodes_extracted" /\ relations_from_list # {})
          => ~edge_pass(relations, 1, nodes, model, id_registry).raised

\* the edge pass left by an exception at a relation between two items of one
\* list, the node table built and the edge list never returned
C28_Witness ==
    /\ pc = "failed"
    /\ raised = "AttributeError"
    /\ \E j \in relations_from_list :
          /\ relations[j].from_node \in DOMAIN nodes_dict
          /\ nodes_dict[relations[j].from_node] # <<>>
          /\ path_truthy(relations[j].to_field_path_)
          /\ get_field_by_path(model, relations[j].to_field_path_) # None

(***************************************************************************)
(* Items without a name.                                                   *)
(***************************************************************************)
\* the declarations named by a field and deduplicated by the display name
named_by_field ==
    {i \in sole_declarations :
        nodes[i].name_from.kind = "field" /\ ~Truthy(nodes[i].deduplication_key)}

\* the items of declaration i whose name field holds value
items_named(i, value) ==
    {k \in DOMAIN items_of_node(nodes[i], model, 1) :
        dict_get(items_of_node(nodes[i], model, 1)[k].f, nodes[i].name_from.field) = value}

\* the rows of the table of declaration i with the display name name
rows_named(i, name) ==
    {a \in DOMAIN nodes_dict[nodes[i].baml_class] :
        nodes_dict[nodes[i].baml_class][a]["_name"] = name}

\* the display name of an item of declaration i without a name
unnamed(i) == Str(nodes[i].baml_class \o "_unnamed")

\* C29: under a declaration named by a field and without a deduplication
\* key, the items whose name is null all get the display name
\* "<NodeType>_unnamed" and share one row, that of the first of them, and a
\* relation from the root that has one of them as a target has an edge to
\* that row; the items whose name is the empty string have no deduplication
\* value and each has a row of its own.
C29_UnnamedShareOneRow ==
    pc = "extracted" =>
        \A i \in named_by_field :
            LET type == nodes[i].baml_class
                table == nodes_dict[type]
                nameless == items_named(i, None)
                first == CHOOSE k \in nameless : \A l \in nameless : k <= l
            IN /\ \A k \in nameless : rows_met(i)[k]["_name"] = unnamed(i)
               /\ nameless # {} =>
                     /\ Cardinality(rows_named(i, unnamed(i))) = 1
                     /\ \A a \in rows_named(i, unnamed(i)) :
                           /\ business(table[a]) = business(rows_met(i)[first])
                           /\ \A j \in relations_into(i) : \A row \in target_rows(i, j) :
                                 row["_name"] = unnamed(i) =>
                                    \E e \in DOMAIN relationships :
                                       /\ relationships[e][5] = relations[j].name
                                       /\ relationships[e][3] = type
                                       /\ relationships[e][4] = table[a]["id"]
               /\ \A k \in items_named(i, Str("")) : ~has_dedup_value(i, rows_met(i)[k])
               /\ Cardinality(rows_named(i, Str(""))) = Cardinality(items_named(i, Str("")))

\* two items without a name and with different content under one
\* declaration, one row for both, and an edge of a relation to that row
C29_Witness ==
    /\ pc = "extracted"
    /\ \E i \in named_by_field :
          /\ \E k, l \in items_named(i, None) :
                business(rows_met(i)[k]) # business(rows_met(i)[l])
          /\ Cardinality(rows_named(i, unnamed(i))) = 1
          /\ \E a \in rows_named(i, unnamed(i)) : \E e \in DOMAIN relationships :
                relationships[e][4] = nodes_dict[nodes[i].baml_class][a]["id"]

(***************************************************************************)
(* Properties of the Kuzu backend.                                         *)
(***************************************************************************)
\* the node table t holds a row whose primary key is key
has_node(bk, t, key) ==
    /\ is_node_table(bk.tables, t)
    /\ rows_with_key(bk.tables, t, Quoted(Str(key))) # {}

\* the last call was insert_relationship(R, T, from_key, U, to_key) on a
\* connected backend with the tables T, U and R and the two rows
inserted_between(from_key, to_key) ==
    /\ Len(kuzu.call) = 4
    /\ kuzu.call[1] = "insert_relationship"
    /\ kuzu.call[2] = from_key
    /\ kuzu.call[3] = to_key
    /\ kuzu.conn
    /\ has_node(kuzu, KuzuRelation.from, from_key)
    /\ has_node(kuzu, KuzuRelation.to, to_key)
    /\ is_rel_table(kuzu.tables, KuzuRelation.name)

\* C30: insert_relationship(R, T, k1, U, k2), called when T holds a row with
\* primary key k1, U a row with primary key k2 and R is a relationship table
\* from T to U, returns and adds one edge, from k1 to k2, whatever the name
\* of the primary key fields.
C30_RelationshipConnects ==
    \A from_key, to_key \in KuzuKeys :
        inserted_between(from_key, to_key) =>
            /\ kuzu.raised = NoError
            /\ edge_count(kuzu) = kuzu.call[4] + 1
            /\ kuzu.tables[KuzuRelation.name].rows[edge_count(kuzu)]
                  = <<Quoted(Str(from_key)), Quoted(Str(to_key))>>

\* the call made on two tables keyed by id, each with its row, and left by
\* an exception without an edge
C30_Witness ==
    \E from_key, to_key \in KuzuKeys :
        /\ inserted_between(from_key, to_key)
        /\ kuzu.tables[KuzuRelation.from].primary_key = "id"
        /\ kuzu.tables[KuzuRelation.to].primary_key = "id"
        /\ kuzu.raised = "RuntimeError"
        /\ edge_count(kuzu) = 0

====
